---- MODULE Spec2Model ----
(***************************************************************************)
(* A model of DOMShell: the Snapshot Mapper (src/background/vfs_mapper.ts), *)
(* the Navigation Kernel of the extension's service worker                  *)
(* (background/index.ts), the control-plane client (cdp_client.ts) and the  *)
(* Protocol Gateway (mcp-server/index.ts).                                  *)
(*                                                                          *)
(* Strings of the program are sequences of one-character strings, so that   *)
(* the conversions the program applies to them (lower-casing, sanitizing,   *)
(* splitting, number formatting and parsing) are computed, not assumed.     *)
(***************************************************************************)
EXTENDS Integers, Sequences, FiniteSets, TLC

VARIABLES
    \* ---- Snapshot Mapper, as a pure function applied to drawn inputs ----
    mapNodes,       \* the node map handed to the mapper
    mapParent,      \* the parent id handed to the mapper
    mapOut,         \* the entries of the last mapping pass
    mapDone,        \* whether the pass has run
    mapAgain        \* the entries of a second pass over the first pass's output

mapVars == <<mapNodes, mapParent, mapOut, mapDone, mapAgain>>

VARIABLES
    \* ---- Navigation Kernel (the service worker's globals) ----
    path,           \* state.path
    axNodeIds,      \* state.axNodeIds
    activeTabId,    \* state.activeTabId
    nodeMap,        \* nodeMap, in insertion order
    treeStale,      \* treeStale
    attachedTabId,  \* CDPClient.attachedTabId
    \* ---- the browser ----
    dbg,            \* tabs the debugger is attached to for the extension
    page,           \* the document each tab shows
    attachable,     \* tabs on which chrome.debugger.attach succeeds
    \* ---- the Gateway's configuration as the extension sees it ----
    allowedDomains, \* ALLOWED_DOMAINS, sent with every EXECUTE
    \* ---- history: the last EXECUTE handled, for stating properties ----
    last

kernelVars == <<path, axNodeIds, activeTabId, nodeMap, treeStale, attachedTabId,
                dbg, page, attachable, allowedDomains, last>>

VARIABLES
    \* ---- overlapping commands in the service worker ----
    tasks           \* each caller's command in flight: its step and target tab

attachVars == <<tasks>>

VARIABLES
    \* ---- Gateway (mcp-server/index.ts) ----
    flags,            \* ALLOW_WRITE, ALLOW_SENSITIVE, NO_CONFIRM
    transports,       \* the MCP sessions
    calls,            \* the executeWithSecurity invocations, in order of arrival
    pendingRequests,  \* ids of the requests awaiting a RESULT
    sent,             \* the EXECUTE messages sent over the bridge
    conns,            \* the WebSocket connections made to the bridge
    extensionClient,  \* the connection that is the extension client, or Null
    prompt,           \* the call whose confirmation prompt blocks the process
    elapsed,          \* 60 seconds have passed since the prompt was written
    auditLog,         \* the audit log
    lastHttp          \* history: the last HTTP request to /mcp and its outcome

gwVars == <<flags, transports, calls, pendingRequests, sent, conns, extensionClient,
            prompt, elapsed, auditLog, lastHttp>>

VARIABLES
    \* ---- the extension's bridge client (the service worker's globals) ----
    wsEnabled,        \* wsEnabled
    wsToken,          \* wsToken, or Null
    ws,               \* ws and its readyState: "null", "connecting", "open", "closed"
    wsReconnectTimer, \* wsReconnectTimer is armed
    wsConnected,      \* wsConnected
    \* ---- the browser around the service worker ----
    keepalive,        \* the alarm KEEPALIVE_ALARM exists
    closing,          \* a socket closed by the code has its close event pending
    worker,           \* the service worker is "running" or "suspended"
    storage,          \* chrome.storage.local: ws_enabled and ws_token
    changes,          \* storage changes not yet delivered to onChanged
    \* ---- history: 0, or 1 + the automatic attempts made since the connection
    \* was lost, while it is not re-established ----
    retrying

wsVars == <<wsEnabled, wsToken, ws, wsReconnectTimer, wsConnected, keepalive,
            closing, worker, storage, changes, retrying>>

VARIABLES
    \* ---- resolveByPath applied to a drawn path, whole and step by step ----
    rsNodes,          \* the node map
    rsStart,          \* the start node's id
    rsPath,           \* the path: names joined with "/"
    rsWhole,          \* what one call for the whole path returned
    rsWholeDone,      \* the call for the whole path was made
    rsStep,           \* the entry the last single-segment call returned
    rsLeft            \* the segments not resolved yet

rsVars == <<rsNodes, rsStart, rsPath, rsWhole, rsWholeDone, rsStep, rsLeft>>

VARIABLES
    \* ---- executeWithSecurity receiving the answer to a forwarded command ----
    rdExpose,         \* EXPOSE_COOKIES
    rdCommand,        \* the command
    rdOutput,         \* the text sendCommand resolved with
    rdResult,         \* what executeWithSecurity returned
    rdAudit           \* the audit entries written after the answer

rdVars == <<rdExpose, rdCommand, rdOutput, rdResult, rdAudit>>

VARIABLES
    \* ---- one command string, classified by the gateway and dispatched by the kernel ----
    dsFlags,          \* the gateway's flags
    dsCommand,        \* the command string
    dsTier,           \* the tier getCommandTier gave it
    dsForwarded,      \* it was sent to the extension
    dsVerb            \* the verb the kernel's switch ran on

dsVars == <<dsFlags, dsCommand, dsTier, dsForwarded, dsVerb>>

VARIABLES
    \* ---- ensureFreshTree taken step by step, the debugger's events between ----
    fsDoc,            \* the document the attached tab shows (a count of its changes)
    fsQueued,         \* the debugger has an event to deliver
    fsTreeStale,      \* treeStale
    fsNodeMap,        \* the document nodeMap was built from
    fsPc,             \* where the running command is
    fsFrom,           \* the document shown when the running fetch began
    fsFetched,        \* the running command awaited a fetch
    fsOwed,           \* an event was delivered and no fetch begun after it replaced the snapshot
    fsDuring          \* an event was delivered while the running fetch was awaited

fsVars == <<fsDoc, fsQueued, fsTreeStale, fsNodeMap, fsPc, fsFrom, fsFetched, fsOwed, fsDuring>>

VARIABLES
    \* ---- one control-plane connection, from sendCommand to ws.onmessage ----
    exOpen,           \* the connection is open
    exSent,           \* the EXECUTE messages the Gateway sent
    exHandled,        \* the ids of the EXECUTE messages ws.onmessage has handled
    exResults         \* the RESULT messages the extension sent

exVars == <<exOpen, exSent, exHandled, exResults>>

\* the variables of the specifications of one function or one handler taken alone
pureVars == <<rsVars, rdVars, dsVars, fsVars, exVars>>

vars == <<mapVars, kernelVars, attachVars, gwVars, wsVars, pureVars>>

\* With(v, F) is F(v): it names a value that a definition uses more than once
\* (a `const` of the source)
With(v, F(_)) == F(v)

(***************************************************************************)
(* Strings                                                                  *)
(***************************************************************************)

UpperChars == <<"A","B","C","D","E","F","G","H","I","J","K","L","M",
                "N","O","P","Q","R","S","T","U","V","W","X","Y","Z">>

LowerChars == <<"a","b","c","d","e","f","g","h","i","j","k","l","m",
                "n","o","p","q","r","s","t","u","v","w","x","y","z">>

DigitChars == <<"0","1","2","3","4","5","6","7","8","9">>

Range(s) == {s[i] : i \in DOMAIN s}

IsSpace(c) == c \in {" ", "\t", "\n", "\r"}

IsDigit(c) == c \in Range(DigitChars)

\* String.prototype.toLowerCase, one character
LowerChar(c) ==
    IF c \in Range(UpperChars)
    THEN LowerChars[CHOOSE i \in DOMAIN UpperChars : UpperChars[i] = c]
    ELSE c

toLowerCase(s) == [i \in DOMAIN s |-> LowerChar(s[i])]

RECURSIVE FilterChars(_, _)
FilterChars(s, keep) ==
    IF s = <<>> THEN <<>>
    ELSE (IF Head(s) \in keep THEN <<Head(s)>> ELSE <<>>) \o FilterChars(Tail(s), keep)

RECURSIVE TrimLeft(_)
TrimLeft(s) == IF s # <<>> /\ IsSpace(Head(s)) THEN TrimLeft(Tail(s)) ELSE s

RECURSIVE TrimRight(_)
TrimRight(s) ==
    IF s # <<>> /\ IsSpace(s[Len(s)]) THEN TrimRight(SubSeq(s, 1, Len(s) - 1)) ELSE s

\* String.prototype.trim
trim(s) == TrimRight(TrimLeft(s))

\* replace(/\s+/g, "_"): every maximal run of whitespace becomes one "_"
RECURSIVE SpacesToUnderscore(_)
SpacesToUnderscore(s) ==
    IF s = <<>> THEN <<>>
    ELSE IF IsSpace(Head(s))
         THEN <<"_">> \o SpacesToUnderscore(TrimLeft(s))
         ELSE <<Head(s)>> \o SpacesToUnderscore(Tail(s))

\* String.prototype.slice(0, n)
Slice0(s, n) == IF Len(s) <= n THEN s ELSE SubSeq(s, 1, n)

\* String(n) for a natural number
RECURSIVE ToStr(_)
ToStr(n) == IF n < 10 THEN <<DigitChars[n + 1]>>
            ELSE ToStr(n \div 10) \o <<DigitChars[(n % 10) + 1]>>

DigitValue(c) == (CHOOSE i \in DOMAIN DigitChars : DigitChars[i] = c) - 1

\* /^\d+$/.test(s)
AllDigits(s) == s # <<>> /\ \A i \in DOMAIN s : IsDigit(s[i])

RECURSIVE DigitsValue(_, _)
DigitsValue(s, acc) ==
    IF s = <<>> \/ ~IsDigit(Head(s)) THEN acc
    ELSE DigitsValue(Tail(s), acc * 10 + DigitValue(Head(s)))

NaN == -1

\* parseInt(s, 10) on the unsigned inputs of the program: leading whitespace is
\* skipped, the longest digit prefix is read, NaN when there is none
parseInt(s) ==
    LET t == TrimLeft(s)
    IN IF t = <<>> \/ ~IsDigit(Head(t)) THEN NaN ELSE DigitsValue(t, 0)

\* s.split(sep).filter(Boolean) for a one-character separator
RECURSIVE SplitNonEmpty(_, _, _)
SplitNonEmpty(s, sep, cur) ==
    IF s = <<>> THEN (IF cur = <<>> THEN <<>> ELSE <<cur>>)
    ELSE IF Head(s) = sep
         THEN (IF cur = <<>> THEN <<>> ELSE <<cur>>) \o SplitNonEmpty(Tail(s), sep, <<>>)
         ELSE SplitNonEmpty(Tail(s), sep, Append(cur, Head(s)))

\* s.startsWith(p)
startsWith(s, p) == Len(s) >= Len(p) /\ SubSeq(s, 1, Len(p)) = p

\* s.endsWith(p)
endsWith(s, p) == Len(s) >= Len(p) /\ SubSeq(s, Len(s) - Len(p) + 1, Len(s)) = p

(***************************************************************************)
(* Accessibility nodes (shared/types.ts)                                    *)
(***************************************************************************)

\* an optional field that is not set
Absent == <<"<absent>">>

r_button == <<"b","u","t","t","o","n">>
r_link == <<"l","i","n","k">>
r_textbox == <<"t","e","x","t","b","o","x">>
r_checkbox == <<"c","h","e","c","k","b","o","x">>
r_radio == <<"r","a","d","i","o">>
r_combobox == <<"c","o","m","b","o","b","o","x">>
r_menuitem == <<"m","e","n","u","i","t","e","m">>
r_tab == <<"t","a","b">>
r_slider == <<"s","l","i","d","e","r">>
r_searchbox == <<"s","e","a","r","c","h","b","o","x">>
r_switch == <<"s","w","i","t","c","h">>
r_img == <<"i","m","g">>
r_image == <<"i","m","a","g","e">>
r_heading == <<"h","e","a","d","i","n","g">>
r_option == <<"o","p","t","i","o","n">>
r_spinbutton == <<"s","p","i","n","b","u","t","t","o","n">>
r_menuitemcheckbox == r_menuitem \o r_checkbox
r_menuitemradio == r_menuitem \o r_radio
r_group == <<"g","r","o","u","p">>
r_navigation == <<"n","a","v","i","g","a","t","i","o","n">>
r_form == <<"f","o","r","m">>
r_main == <<"m","a","i","n">>
r_list == <<"l","i","s","t">>
r_generic == <<"g","e","n","e","r","i","c">>
r_none == <<"n","o","n","e">>
r_Ignored == <<"I","g","n","o","r","e","d">>
r_WebArea == <<"W","e","b","A","r","e","a">>
r_RootWebArea == <<"R","o","o","t">> \o r_WebArea
r_Iframe == <<"I","f","r","a","m","e">>
r_paragraph == <<"p","a","r","a","g","r","a","p","h">>
r_unknown == <<"u","n","k","n","o","w","n">>

\* The container roles of the model's alphabet; the source lists more roles,
\* all treated alike.
CONTAINER_ROLES ==
    {r_group, r_navigation, r_form, r_main, r_list, r_generic,
     r_WebArea, r_RootWebArea, r_Iframe}

INTERACTIVE_ROLES ==
    {r_button, r_link, r_textbox, r_checkbox, r_radio, r_combobox, r_menuitem,
     r_menuitemcheckbox, r_menuitemradio, r_option, r_switch, r_tab, r_slider,
     r_spinbutton, r_searchbox}

\* An AXNode. name and description are "" when unset (the code reads them with
\* ?? ""); childIds is <<>> when unset; backendDOMNodeId is 0 when unset.
AXNode(id, role, name, childIds, ignored, backend) ==
    [nodeId |-> id, role |-> role, name |-> name, description |-> <<>>,
     childIds |-> childIds, ignored |-> ignored, backendDOMNodeId |-> backend]

(***************************************************************************)
(* Snapshot Mapper (background/vfs_mapper.ts)                               *)
(***************************************************************************)

MaxNameLen == 40

SanitizeKeep ==
    Range(LowerChars) \cup Range(DigitChars) \cup {" ", "\t", "_", "-"}

sanitize(text) ==
    Slice0(SpacesToUnderscore(trim(FilterChars(toLowerCase(text), SanitizeKeep))),
           MaxNameLen)

roleSuffix(role) ==
    CASE role = r_button -> <<"_","b","t","n">>
      [] role = r_link -> <<"_","l","i","n","k">>
      [] role = r_textbox -> <<"_","i","n","p","u","t">>
      [] role = r_checkbox -> <<"_","c","h","k">>
      [] role = r_radio -> <<"_","r","a","d","i","o">>
      [] role = r_combobox -> <<"_","s","e","l","e","c","t">>
      [] role = r_menuitem -> <<"_","i","t","e","m">>
      [] role = r_tab -> <<"_","t","a","b">>
      [] role = r_slider -> <<"_","s","l","i","d","e","r">>
      [] role = r_searchbox -> <<"_","s","e","a","r","c","h">>
      [] role = r_switch -> <<"_","s","w","i","t","c","h">>
      [] role = r_img -> <<"_","i","m","g">>
      [] role = r_image -> <<"_","i","m","g">>
      [] role = r_heading -> <<"_","h","e","a","d","i","n","g">>
      [] OTHER -> <<>>

generateNodeName(node) ==
    LET role == IF node.role = Absent THEN r_unknown ELSE node.role
        suffix == roleSuffix(role)
    IN IF node.name # <<>> /\ sanitize(node.name) # <<>>
       THEN sanitize(node.name) \o suffix
       ELSE IF node.description # <<>> /\ sanitize(node.description) # <<>>
       THEN sanitize(node.description) \o suffix
       ELSE role \o (IF suffix # <<>> THEN suffix ELSE <<"_">> \o node.nodeId)

RoleOrEmpty(node) == IF node.role = Absent THEN <<>> ELSE node.role

isContainerNode(node) ==
    \/ RoleOrEmpty(node) \in CONTAINER_ROLES
    \/ (node.childIds # <<>> /\ RoleOrEmpty(node) \notin INTERACTIVE_ROLES)

\* buildNodeMap: a Map keeps the insertion order of its keys; setting a key
\* again replaces the value in place.
\* Map.set(n.nodeId, n)
MapSet(nmap, n) ==
    IF \E i \in DOMAIN nmap : nmap[i].nodeId = n.nodeId
    THEN [i \in DOMAIN nmap |-> IF nmap[i].nodeId = n.nodeId THEN n ELSE nmap[i]]
    ELSE Append(nmap, n)

RECURSIVE buildNodeMap(_)
buildNodeMap(axNodes) ==
    IF axNodes = <<>> THEN <<>>
    ELSE MapSet(buildNodeMap(SubSeq(axNodes, 1, Len(axNodes) - 1)), axNodes[Len(axNodes)])

MapHas(nmap, id) == \E i \in DOMAIN nmap : nmap[i].nodeId = id

MapGet(nmap, id) == nmap[CHOOSE i \in DOMAIN nmap : nmap[i].nodeId = id]

MapKeys(nmap) == {nmap[i].nodeId : i \in DOMAIN nmap}

NoNode == [nodeId |-> Absent]

findRootNode(nmap) ==
    LET webAreas == {i \in DOMAIN nmap :
                        RoleOrEmpty(nmap[i]) \in {r_RootWebArea, r_WebArea}}
    IN IF webAreas # {}
       THEN nmap[CHOOSE i \in webAreas : \A j \in webAreas : i <= j]
       ELSE IF nmap # <<>> THEN nmap[1] ELSE NoNode

shouldFlattenNode(node) ==
    \/ node.ignored
    \/ RoleOrEmpty(node) \in {r_none, r_Ignored}
    \/ (RoleOrEmpty(node) = r_generic /\ node.name = <<>>)

NoVFS == [axNodeId |-> Absent]

axNodeToVFSNode(node) ==
    IF RoleOrEmpty(node) \in {r_none, r_Ignored} THEN NoVFS
    ELSE [axNodeId |-> node.nodeId,
          backendDOMNodeId |-> node.backendDOMNodeId,
          name |-> generateNodeName(node),
          role |-> RoleOrEmpty(node),
          isDirectory |-> isContainerNode(node)]

SeenCount(seenNames, name) == IF name \in DOMAIN seenNames THEN seenNames[name] ELSE 0

deduplicateName_suffixIsCount(vfsNode, seenNames) ==
    With(vfsNode.name, LAMBDA baseName :
    With(SeenCount(seenNames, baseName), LAMBDA count :
       [node |-> IF count > 0
                 THEN [vfsNode EXCEPT !.name = baseName \o <<"_">> \o ToStr(count)]
                 ELSE vfsNode,
        seenNames |-> [n \in DOMAIN seenNames \cup {baseName} |->
                          IF n = baseName THEN count + 1 ELSE seenNames[n]]]))

\* deduplicateName: the renamed entry and the updated counters
deduplicateName(vfsNode, seenNames) ==
    With(vfsNode.name, LAMBDA baseName :
    With(SeenCount(seenNames, baseName), LAMBDA count :
       [node |-> IF count > 0
                 THEN [vfsNode EXCEPT !.name = baseName \o <<"_">> \o ToStr(count + 1)]
                 ELSE vfsNode,
        seenNames |-> [n \in DOMAIN seenNames \cup {baseName} |->
                          IF n = baseName THEN count + 1 ELSE seenNames[n]]]))

WrapperAcc_freshNames(acc) == [acc EXCEPT !.seenNames = <<>>]

\* the recursion into a wrapper is given the caller's own results, seenNames
\* and visited, and the caller goes on with what the recursion left in them
WrapperAcc(acc) == acc

\* (had it been given name counters of its own, the caller would go on with
\* its counters)
SharedAcc(acc, inner) ==
    IF WrapperAcc(acc) = acc THEN inner ELSE [inner EXCEPT !.seenNames = acc.seenNames]

\* collectChildren threads (results, seenNames, visited) through the recursion;
\* expanded lists the nodes whose child list was walked, in the order of the
\* walks.
RECURSIVE collectChildren(_, _, _)
RECURSIVE CollectLoop(_, _, _)
CollectLoop(childIds, nmap, acc) ==
    IF childIds = <<>> THEN acc
    ELSE LET childId == Head(childIds)
             rest == Tail(childIds)
         IN IF ~MapHas(nmap, childId) THEN CollectLoop(rest, nmap, acc)
            ELSE With(MapGet(nmap, childId), LAMBDA child :
                 IF shouldFlattenNode(child)
                 THEN CollectLoop(rest, nmap,
                         IF child.childIds # <<>>
                         THEN SharedAcc(acc, collectChildren(childId, nmap, WrapperAcc(acc)))
                         ELSE acc)
                 ELSE With(axNodeToVFSNode(child), LAMBDA vfsNode :
                      IF vfsNode = NoVFS THEN CollectLoop(rest, nmap, acc)
                      ELSE With(deduplicateName(vfsNode, acc.seenNames), LAMBDA d :
                           CollectLoop(rest, nmap,
                               [acc EXCEPT !.results = Append(@, d.node),
                                           !.seenNames = d.seenNames]))))

\* (had visited held only the nodes whose walk is still under way)
collectChildren_visitedOnStack(parentId, nmap, acc) ==
    IF parentId \in acc.visited THEN acc
    ELSE LET acc1 == [acc EXCEPT !.visited = @ \cup {parentId}]
         IN IF ~MapHas(nmap, parentId) THEN acc
            ELSE [CollectLoop(MapGet(nmap, parentId).childIds, nmap,
                              [acc1 EXCEPT !.expanded = Append(@, parentId)])
                    EXCEPT !.visited = acc.visited]

collectChildren(parentId, nmap, acc) ==
    IF parentId \in acc.visited THEN acc
    ELSE LET acc1 == [acc EXCEPT !.visited = @ \cup {parentId}]
         IN IF ~MapHas(nmap, parentId) THEN acc1
            ELSE CollectLoop(MapGet(nmap, parentId).childIds, nmap,
                             [acc1 EXCEPT !.expanded = Append(@, parentId)])

NoneCollected == [results |-> <<>>, seenNames |-> <<>>, visited |-> {}, expanded |-> <<>>]

getChildVFSNodes(parentId, nmap) == collectChildren(parentId, nmap, NoneCollected).results

\* Array.find: the first element of s that satisfies P, none when there is none
Find(s, P(_), none) ==
    IF \E i \in DOMAIN s : P(s[i])
    THEN s[CHOOSE i \in DOMAIN s : P(s[i]) /\ \A j \in 1..(i - 1) : ~P(s[j])]
    ELSE none

findChildByName(parentId, name, nmap) ==
    Find(getChildVFSNodes(parentId, nmap), LAMBDA c : c.name = name, NoVFS)

(***************************************************************************)
(* The mapper applied to drawn node sets                                    *)
(***************************************************************************)

\* the longest child list drawn for a parent
MaxKids == 3

n_a == <<"a">>
n_A == <<"A">>
n_a2 == <<"a", " ", "2">>

MapParentId == <<"1">>
MapWrapperId == <<"5">>
MapKidIds == {<<"2">>, <<"3">>, <<"4">>}
MapRoles == {r_group, r_button}
MapNames == {n_a, n_A, n_a2, <<>>}

RECURSIVE SeqsUpTo(_, _)
SeqsUpTo(S, n) ==
    IF n = 0 THEN {<<>>}
    ELSE LET shorter == SeqsUpTo(S, n - 1)
         IN shorter \cup {Append(q, x) : q \in {t \in shorter : Len(t) = n - 1}, x \in S}

\* Child lists of the parent: any list of the kids and the wrapper, repeats
\* included (a malformed snapshot may name a child twice).
MapChildLists == SeqsUpTo(MapKidIds \cup {MapWrapperId}, MaxKids)

\* Child lists of the unnamed generic wrapper; the last one closes a cycle
\* through the parent.
MapWrapperLists == {<<>>, << <<"4">> >>, << <<"4">>, MapParentId >>}

MapperNodes(kids, role, name, wrapKids) ==
    buildNodeMap(
        << AXNode(MapParentId, r_main, <<>>, kids, FALSE, 1),
           AXNode(<<"2">>, role[<<"2">>], name[<<"2">>], <<>>, FALSE, 2),
           AXNode(<<"3">>, role[<<"3">>], name[<<"3">>], <<>>, FALSE, 3),
           AXNode(<<"4">>, role[<<"4">>], name[<<"4">>], <<>>, FALSE, 4),
           AXNode(MapWrapperId, r_generic, <<>>, wrapKids, FALSE, 5) >>)

MapInit ==
    /\ \E kids \in MapChildLists, wrapKids \in MapWrapperLists,
          role \in [MapKidIds -> MapRoles], name \in [MapKidIds -> MapNames] :
            mapNodes = MapperNodes(kids, role, name, wrapKids)
    /\ mapParent = MapParentId
    /\ mapOut = <<>>
    /\ mapDone = FALSE
    /\ mapAgain = <<>>

\* one mapping pass: getChildVFSNodes(parentId, nodeMap)
MapChildren ==
    /\ ~mapDone
    /\ mapOut' = getChildVFSNodes(mapParent, mapNodes)
    /\ mapDone' = TRUE
    /\ UNCHANGED <<mapNodes, mapParent, mapAgain>>
    /\ UNCHANGED <<kernelVars, attachVars, gwVars, wsVars, pureVars>>

\* the ids of a parent's entries
EntryIds(parentId, nmap) ==
    With(getChildVFSNodes(parentId, nmap), LAMBDA out :
        [i \in DOMAIN out |-> out[i].axNodeId])

\* the tree of the mapper's output made of the snapshot's own nodes: the
\* flattened nodes are gone and every other node has its entries as children
RECURSIVE FlatNodes(_, _)
FlatNodes(nmap, orig) ==
    IF nmap = <<>> THEN <<>>
    ELSE (IF shouldFlattenNode(Head(nmap)) THEN <<>>
          ELSE << [Head(nmap) EXCEPT !.childIds = EntryIds(Head(nmap).nodeId, orig)] >>)
         \o FlatNodes(Tail(nmap), orig)

\* the tree made of the output alone: each entry is a node that has the
\* entry's name as its name
NameIn(out, id, name) ==
    IF \E i \in DOMAIN out : out[i].axNodeId = id
    THEN out[CHOOSE i \in DOMAIN out :
                /\ out[i].axNodeId = id
                /\ \A j \in 1..(i - 1) : out[j].axNodeId # id].name
    ELSE name

OutputNodes(nmap, parentId) ==
    With(<<FlatNodes(nmap, nmap), getChildVFSNodes(parentId, nmap)>>, LAMBDA p :
        [i \in DOMAIN p[1] |->
            [p[1][i] EXCEPT !.name = NameIn(p[2], p[1][i].nodeId, @)]])

\* a second mapping pass, over the tree of the first pass's output
Remap ==
    /\ mapDone /\ mapAgain = <<>>
    /\ mapAgain' = With(FlatNodes(mapNodes, mapNodes), LAMBDA flat :
                      [flat       |-> flat,
                       fromNodes  |-> [id \in MapKeys(flat) |-> getChildVFSNodes(id, flat)],
                       fromOutput |-> getChildVFSNodes(mapParent,
                                          OutputNodes(mapNodes, mapParent))])
    /\ UNCHANGED <<mapNodes, mapParent, mapOut, mapDone>>
    /\ UNCHANGED <<kernelVars, attachVars, gwVars, wsVars, pureVars>>

MapNext == MapChildren

\* Child lists of the wrapper that name the wrapper itself, and the parent
CycleLists ==
    {<< MapWrapperId >>, << <<"4">>, MapWrapperId >>,
     << MapWrapperId, MapParentId, <<"4">>, MapWrapperId >>}

\* malformed trees: the parent has the wrapper among its children, and the
\* wrapper's child references come back to the wrapper
CycleInit ==
    /\ \E kids \in MapChildLists, wrapKids \in CycleLists :
          /\ \E i \in DOMAIN kids : kids[i] = MapWrapperId
          /\ mapNodes = MapperNodes(kids, [id \in MapKidIds |-> r_button],
                                    [id \in MapKidIds |-> n_a], wrapKids)
    /\ mapParent = MapParentId
    /\ mapOut = <<>>
    /\ mapDone = FALSE
    /\ mapAgain = <<>>

\* the child references of a node set
RECURSIVE ChildRefs(_)
ChildRefs(nmap) ==
    IF nmap = <<>> THEN 0 ELSE Len(Head(nmap).childIds) + ChildRefs(Tail(nmap))

\* the nodes one mapping pass walked the child list of
Expansions(parentId, nmap) == collectChildren(parentId, nmap, NoneCollected).expanded

\* the trees in which the parent has the wrapper among its children and the
\* wrapper has children of its own
FlattenInit ==
    /\ MapInit
    /\ \E i \in DOMAIN MapGet(mapNodes, mapParent).childIds :
          MapGet(mapNodes, mapParent).childIds[i] = MapWrapperId
    /\ MapGet(mapNodes, MapWrapperId).childIds # <<>>

FlattenNext == MapChildren \/ Remap

(***************************************************************************)
(* The browser: tabs, windows and the pages they show                       *)
(***************************************************************************)

\* "no tab": null of activeTabId / attachedTabId. Chrome's tab ids are positive.
Null == 0

s_tabs == <<"t","a","b","s">>
s_windows == <<"w","i","n","d","o","w","s">>
s_dotdot == <<".", ".">>
s_dot == <<".">>
s_tilde == <<"~">>
s_slash == <<"/">>
s_nav == <<"n","a","v">>
s_submit_btn == <<"s","u","b","m","i","t","_","b","t","n">>
s_menu == <<"m","e","n","u">>

\* The open tabs, in the enumeration order of chrome.windows.getAll:
\* window 1 holds tab 7, window 2 holds tab 8.
TabIds == {7, 8}
WindowIds == {1, 2}
WindowOf(t) == IF t = 7 THEN 1 ELSE 2
TabOrder == <<7, 8>>

h_example == <<"e","x","a","m","p","l","e",".","c","o","m">>
h_evil == <<"e","v","i","l",".","t","e","s","t">>
u_https == <<"h","t","t","p","s",":","/","/">>

\* The documents a tab can show. Node ids are per document and overlap between
\* documents, as Chrome's do.
\*   pA : root 1 { nav 2 { menu 4 { home link 5 } }, submit button 3 }
\*   pA2: pA after the page dropped nav: root 1 { submit button 3 }
\*   pB : another document of the same site: root 1 { unnamed generic 6 { nav 7 } }
\*   pE : a document of another site: root 1 { nav 2, submit button 3 }
\*   pA3: pA after a script relabelled the navigation region (aria-label
\*        "nav" to "site"): the same nodes, the same ids
PageIds == {"pA", "pA2", "pB", "pE"}

PageNodes(p) ==
    CASE p = "pA" ->
           << AXNode(<<"1">>, r_RootWebArea, <<"E","x">>, << <<"2">>, <<"3">> >>, FALSE, 1),
              AXNode(<<"2">>, r_navigation, s_nav, << <<"4">> >>, FALSE, 2),
              AXNode(<<"3">>, r_button, <<"S","u","b","m","i","t">>, <<>>, FALSE, 3),
              AXNode(<<"4">>, r_list, s_menu, << <<"5">> >>, FALSE, 4),
              AXNode(<<"5">>, r_link, <<"H","o","m","e">>, <<>>, FALSE, 5) >>
      [] p = "pA2" ->
           << AXNode(<<"1">>, r_RootWebArea, <<"E","x">>, << <<"3">> >>, FALSE, 1),
              AXNode(<<"3">>, r_button, <<"S","u","b","m","i","t">>, <<>>, FALSE, 3) >>
      [] p = "pA3" ->
           << AXNode(<<"1">>, r_RootWebArea, <<"E","x">>, << <<"2">>, <<"3">> >>, FALSE, 1),
              AXNode(<<"2">>, r_navigation, <<"s","i","t","e">>, << <<"4">> >>, FALSE, 2),
              AXNode(<<"3">>, r_button, <<"S","u","b","m","i","t">>, <<>>, FALSE, 3),
              AXNode(<<"4">>, r_list, s_menu, << <<"5">> >>, FALSE, 4),
              AXNode(<<"5">>, r_link, <<"H","o","m","e">>, <<>>, FALSE, 5) >>
      [] p = "pB" ->
           << AXNode(<<"1">>, r_RootWebArea, <<"E","x">>, << <<"6">> >>, FALSE, 1),
              AXNode(<<"6">>, r_generic, <<>>, << <<"7">> >>, FALSE, 6),
              AXNode(<<"7">>, r_navigation, s_nav, <<>>, FALSE, 7) >>
      [] OTHER ->
           << AXNode(<<"1">>, r_RootWebArea, <<"E","v">>, << <<"2">>, <<"3">> >>, FALSE, 1),
              AXNode(<<"2">>, r_navigation, s_nav, <<>>, FALSE, 2),
              AXNode(<<"3">>, r_button, <<"S","u","b","m","i","t">>, <<>>, FALSE, 3) >>

PageUrl(p) ==
    IF p \in {"pE", "pA2"} THEN u_https \o h_evil \o <<"/">>
    ELSE IF p = "pB" THEN u_https \o <<"A","p","p",".">> \o h_example \o <<"/","b">>
    ELSE u_https \o h_example \o <<"/">>

PageTitle(p) == IF p = "pE" THEN <<"E","v","i","l">> ELSE <<"E","x","a","m","p","l","e">>

\* The pages each tab may show
PagesOf(t) == IF t = 7 THEN {"pA", "pA2"} ELSE {"pE", "pB"}

(***************************************************************************)
(* Control-plane client (background/cdp_client.ts)                          *)
(*                                                                          *)
(* A kernel state k is the record of the service worker's globals:          *)
(*   path, axNodeIds, activeTabId   (state: ShellState)                     *)
(*   nodeMap, treeStale             (module globals)                        *)
(*   attachedTabId                  (CDPClient's private field)             *)
(*   dbg                            (the tabs Chrome's debugger is attached *)
(*                                   to on behalf of the extension)         *)
(* and an environment e is the record of what the browser answers:          *)
(*   page        (the document each tab shows now)                          *)
(*   attachable  (the tabs chrome.debugger.attach succeeds on)              *)
(* An operation that can throw returns [k, thrown] (and more): the state it *)
(* left behind and whether it threw.                                        *)
(***************************************************************************)

\* CDPClient.send succeeds only on a tab the debugger is really attached to
cdpSendOk(k) == k.attachedTabId # Null /\ k.attachedTabId \in k.dbg

\* CDPClient.detach
cdpDetach(k) ==
    IF k.attachedTabId = Null THEN k
    ELSE [k EXCEPT !.attachedTabId = Null, !.dbg = @ \ {k.attachedTabId}]

\* CDPClient.attach
cdpAttach(k, tabId, e) ==
    IF k.attachedTabId = tabId THEN [k |-> k, thrown |-> FALSE]
    ELSE With(cdpDetach(k), LAMBDA k1 :
            IF tabId \in e.attachable /\ tabId \notin k1.dbg
            THEN [k |-> [k1 EXCEPT !.attachedTabId = tabId, !.dbg = @ \cup {tabId}],
                  thrown |-> FALSE]
            ELSE [k |-> k1, thrown |-> TRUE])

\* CDPClient.getAllFrameAXTrees: the merged node list of the attached tab's
\* document; throws when the main frame's tree cannot be fetched. A document
\* always has at least its root node.
getAllFrameAXTrees(k, e) ==
    IF cdpSendOk(k)
    THEN [nodes |-> PageNodes(e.page[k.attachedTabId]), thrown |-> FALSE]
    ELSE [nodes |-> <<>>, thrown |-> TRUE]

\* new URL(url).hostname for the URLs of the model: what follows "://" up to
\* the next "/", ":", "?" or "#"
RECURSIVE UpTo(_, _)
UpTo(s, stops) ==
    IF s = <<>> \/ Head(s) \in stops THEN <<>> ELSE <<Head(s)>> \o UpTo(Tail(s), stops)

RECURSIVE AfterScheme(_)
AfterScheme(s) ==
    IF Len(s) < 3 THEN <<>>
    ELSE IF SubSeq(s, 1, 3) = <<":", "/", "/">> THEN SubSeq(s, 4, Len(s))
         ELSE AfterScheme(Tail(s))

Hostname(url) == toLowerCase(UpTo(AfterScheme(url), {"/", ":", "?", "#"}))

\* CDPClient.getPageUrl
getPageUrl(k, e) ==
    IF cdpSendOk(k)
    THEN [url |-> PageUrl(e.page[k.attachedTabId]), thrown |-> FALSE]
    ELSE [url |-> <<>>, thrown |-> TRUE]

(***************************************************************************)
(* Navigation Kernel (background/index.ts): path helpers                   *)
(***************************************************************************)

getTabIdFromPath(pth) ==
    IF Len(pth) >= 2 /\ pth[1] = s_tabs
    THEN (IF parseInt(pth[2]) = NaN THEN Null ELSE parseInt(pth[2]))
    ELSE IF Len(pth) >= 3 /\ pth[1] = s_windows
    THEN (IF parseInt(pth[3]) = NaN THEN Null ELSE parseInt(pth[3]))
    ELSE Null

\* 0-based index of the first DOM segment, -1 outside a tab
getDomStartIndex(pth) ==
    IF Len(pth) >= 2 /\ pth[1] = s_tabs THEN 2
    ELSE IF Len(pth) >= 3 /\ pth[1] = s_windows THEN 3
    ELSE -1

isInsideTab(k) == getTabIdFromPath(k.path) # Null

\* ensureInsideTab: "" when it returns, the error when it throws
ensureInsideTab(k) ==
    IF ~isInsideTab(k) THEN "NotAttached: requires a tab context"
    ELSE IF k.activeTabId = Null \/ k.nodeMap = <<>> THEN "NotAttached: tab context lost"
    ELSE ""

getDomSegments(pth) ==
    IF getDomStartIndex(pth) < 0 THEN <<>>
    ELSE SubSeq(pth, getDomStartIndex(pth) + 1, Len(pth))

\* pth.slice(0, domStart)
SliceToDomStart(pth) ==
    IF getDomStartIndex(pth) >= 0 THEN SubSeq(pth, 1, getDomStartIndex(pth)) ELSE pth

RootChain(nmap) ==
    With(findRootNode(nmap), LAMBDA root :
        IF root = NoNode THEN <<>> ELSE <<root.nodeId>>)

Last(s) == s[Len(s)]

Pop(s) == SubSeq(s, 1, Len(s) - 1)

cdpSwitchToTab(k, tabId, e) ==
    IF k.activeTabId = tabId /\ k.nodeMap # <<>>
    THEN [k |-> k, thrown |-> FALSE]
    ELSE With(cdpAttach(k, tabId, e), LAMBDA a :
         IF a.thrown THEN a
         ELSE With([a.k EXCEPT !.activeTabId = tabId], LAMBDA k2 :
              With(getAllFrameAXTrees(k2, e), LAMBDA f :
              IF f.thrown THEN [k |-> k2, thrown |-> TRUE]
              ELSE With(buildNodeMap(f.nodes), LAMBDA nm :
                   [k |-> [k2 EXCEPT !.nodeMap = nm, !.axNodeIds = RootChain(nm)],
                    thrown |-> FALSE]))))

\* s.includes(p)
Includes(s, p) == \E i \in 0..(Len(s) - Len(p)) : SubSeq(s, i + 1, i + Len(p)) = p

\* resolveTabTarget: the tab's id, Null when it throws
resolveTabTarget(target, e) ==
    IF AllDigits(target)
    THEN (IF parseInt(target) \in TabIds THEN parseInt(target) ELSE Null)
    ELSE LET pattern == toLowerCase(target)
             hits == {i \in DOMAIN TabOrder :
                        \/ Includes(toLowerCase(PageTitle(e.page[TabOrder[i]])), pattern)
                        \/ Includes(toLowerCase(PageUrl(e.page[TabOrder[i]])), pattern)}
         IN IF hits = {} THEN Null
            ELSE TabOrder[CHOOSE i \in hits : \A j \in hits : i <= j]

\* ensureFreshTree: msg is "" (not stale), "reset" (path reset to the tab root)
\* or "refreshed"
ensureFreshTree_alwaysResets(k, e) ==
    IF ~k.treeStale THEN [k |-> k, msg |-> "", thrown |-> FALSE]
    ELSE With([k EXCEPT !.treeStale = FALSE], LAMBDA k1 :
         With(getAllFrameAXTrees(k1, e), LAMBDA f :
         IF f.thrown THEN [k |-> k1, msg |-> "", thrown |-> TRUE]
         ELSE With(buildNodeMap(f.nodes), LAMBDA nm :
              [k |-> [k1 EXCEPT !.nodeMap = nm, !.path = SliceToDomStart(@),
                                !.axNodeIds = RootChain(nm)],
               msg |-> IF k1.axNodeIds # <<>> /\ Last(k1.axNodeIds) # <<>>
                          /\ ~MapHas(nm, Last(k1.axNodeIds))
                       THEN "reset" ELSE "refreshed", thrown |-> FALSE])))

ensureFreshTree_keepChain(k, e) ==
    IF ~k.treeStale THEN [k |-> k, msg |-> "", thrown |-> FALSE]
    ELSE With([k EXCEPT !.treeStale = FALSE], LAMBDA k1 :
         With(getAllFrameAXTrees(k1, e), LAMBDA f :
         IF f.thrown THEN [k |-> k1, msg |-> "", thrown |-> TRUE]
         ELSE [k |-> [k1 EXCEPT !.nodeMap = buildNodeMap(f.nodes)],
               msg |-> "refreshed", thrown |-> FALSE]))

ensureFreshTree(k, e) ==
    IF ~k.treeStale THEN [k |-> k, msg |-> "", thrown |-> FALSE]
    ELSE With([k EXCEPT !.treeStale = FALSE], LAMBDA k1 :
         With(getAllFrameAXTrees(k1, e), LAMBDA f :
         IF f.thrown THEN [k |-> k1, msg |-> "", thrown |-> TRUE]
         ELSE With(buildNodeMap(f.nodes), LAMBDA nm :
              With([k1 EXCEPT !.nodeMap = nm], LAMBDA k2 :
              IF k2.axNodeIds # <<>> /\ Last(k2.axNodeIds) # <<>>
                 /\ ~MapHas(nm, Last(k2.axNodeIds))
              THEN [k |-> [k2 EXCEPT !.path = SliceToDomStart(@),
                                     !.axNodeIds = RootChain(nm)],
                    msg |-> "reset", thrown |-> FALSE]
              ELSE [k |-> k2, msg |-> "refreshed", thrown |-> FALSE]))))

\* A handler returns [k, out, notice, fresh]: the state it leaves, its result
\* (a tag for the text) and the refresh notice prefixed to the result, if any.
\* fresh is what ensureFreshTree returned to the handler ("" when it did not run
\* or found the tree fresh).
Ret(k, out) == [k |-> k, out |-> out, notice |-> "", fresh |-> ""]

RetF(k, out, notice, fresh) == [k |-> k, out |-> out, notice |-> notice, fresh |-> fresh]

\* handleRefresh
handleRefresh(k, e) ==
    IF ensureInsideTab(k) # "" THEN Ret(k, ensureInsideTab(k))
    ELSE With(getAllFrameAXTrees(k, e), LAMBDA f :
         IF f.thrown THEN Ret(k, "Error: cdp")
         ELSE With(buildNodeMap(f.nodes), LAMBDA nm :
              Ret([k EXCEPT !.nodeMap = nm,
                            !.path = SliceToDomStart(@),
                            !.axNodeIds = RootChain(nm)],
                  "Refreshed")))

(***************************************************************************)
(* Navigation Kernel: cd                                                    *)
(***************************************************************************)

\* enterTab: returns a non-empty text in every case, also on success
enterTab(k, target, e) ==
    With(resolveTabTarget(target, e), LAMBDA tabId :
       IF tabId = Null THEN Ret(k, "cd: NoSuchEntry: no tab matching")
       ELSE With(cdpSwitchToTab([k EXCEPT !.path = Append(@, ToStr(tabId))], tabId, e),
                 LAMBDA sw :
                 IF sw.thrown THEN Ret(sw.k, "cd: attach failed")
                 ELSE Ret(sw.k, "Entered tab")))

\* navigateOneSegment: out is "" on success without text; thrown marks an
\* error that escapes to executeCommand's catch
navigateOneSegment(k, segment, e) ==
    LET tabId == getTabIdFromPath(k.path)
        depth == Len(k.path)
    IN IF tabId # Null
       THEN With(IF k.activeTabId # tabId \/ k.nodeMap = <<>>
                 THEN cdpSwitchToTab(k, tabId, e)
                 ELSE [k |-> k, thrown |-> FALSE], LAMBDA sw :
            IF sw.thrown
            THEN [k |-> sw.k, out |-> "Failed to attach to tab", thrown |-> FALSE]
            ELSE With(ensureFreshTree(sw.k, e), LAMBDA fr :
                 IF fr.thrown THEN [k |-> fr.k, out |-> "Error: cdp", thrown |-> TRUE]
                 ELSE IF fr.k.axNodeIds = <<>>
                 THEN [k |-> fr.k, out |-> "Error: No DOM context", thrown |-> TRUE]
                 ELSE With(findChildByName(Last(fr.k.axNodeIds), segment, fr.k.nodeMap),
                           LAMBDA match :
                           IF match = NoVFS
                           THEN [k |-> fr.k, out |-> "cd: NoSuchEntry", thrown |-> FALSE]
                           ELSE IF ~match.isDirectory
                           THEN [k |-> fr.k, out |-> "cd: NotADirectory", thrown |-> FALSE]
                           ELSE [k |-> [fr.k EXCEPT !.path = Append(@, match.name),
                                                    !.axNodeIds = Append(@, match.axNodeId)],
                                 out |-> "", thrown |-> FALSE])))
       ELSE IF depth = 0
       THEN (IF segment \in {s_tabs, s_windows}
             THEN [k |-> [k EXCEPT !.path = Append(@, segment)], out |-> "", thrown |-> FALSE]
             ELSE [k |-> k, out |-> "cd: NoSuchEntry (try tabs or windows)", thrown |-> FALSE])
       ELSE IF k.path[1] = s_tabs /\ depth = 1
       THEN With(enterTab(k, segment, e), LAMBDA r :
                 [k |-> r.k, out |-> r.out, thrown |-> FALSE])
       ELSE IF k.path[1] = s_windows /\ depth = 1
       THEN (IF parseInt(segment) = NaN
             THEN [k |-> k, out |-> "cd: Invalid window ID", thrown |-> FALSE]
             ELSE IF parseInt(segment) \in WindowIds
             THEN [k |-> [k EXCEPT !.path = Append(@, segment)], out |-> "", thrown |-> FALSE]
             ELSE [k |-> k, out |-> "cd: Window not found", thrown |-> FALSE])
       ELSE IF k.path[1] = s_windows /\ depth = 2
       THEN With(enterTab(k, segment, e), LAMBDA r :
                 [k |-> r.k, out |-> r.out, thrown |-> FALSE])
       ELSE [k |-> k, out |-> "cd: Cannot navigate deeper", thrown |-> FALSE]

\* the ".." step of navigateSegments
AscendOne(k) ==
    IF k.path = <<>> THEN k
    ELSE IF getTabIdFromPath(k.path) # Null /\ getDomStartIndex(k.path) >= 0
            /\ Len(k.path) > getDomStartIndex(k.path)
    THEN (IF Len(k.path) - 1 = getDomStartIndex(k.path)
          THEN [k EXCEPT !.path = Pop(Pop(@)), !.axNodeIds = <<>>]
          ELSE [k EXCEPT !.path = Pop(@), !.axNodeIds = Pop(@)])
    ELSE [k EXCEPT !.path = Pop(@), !.axNodeIds = <<>>]

\* navigateSegments: stops at the first segment whose step returns a text
RECURSIVE navigateSegments(_, _, _)
navigateSegments(k, segments, e) ==
    IF segments = <<>> THEN [k |-> k, out |-> "", thrown |-> FALSE]
    ELSE IF Head(segments) = s_dot THEN navigateSegments(k, Tail(segments), e)
    ELSE IF Head(segments) = s_dotdot THEN navigateSegments(AscendOne(k), Tail(segments), e)
    ELSE With(navigateOneSegment(k, Head(segments), e), LAMBDA r :
            IF r.thrown \/ r.out # "" THEN r
            ELSE navigateSegments(r.k, Tail(segments), e))

\* handleCd
handleCd(k, args, e) ==
    LET target == IF args # <<>> THEN args[1] ELSE <<>>
    IN IF target \in {s_slash, s_tilde, <<>>}
       THEN Ret([k EXCEPT !.path = <<>>], "")
       ELSE IF startsWith(target, <<"~", "/">>)
       THEN LET k1 == [k EXCEPT !.path = <<>>]
                afterTilde == SubSeq(target, 3, Len(target))
            IN IF afterTilde = <<>> THEN Ret(k1, "")
               ELSE With(navigateSegments(k1, SplitNonEmpty(afterTilde, "/", <<>>), e),
                         LAMBDA r : Ret(r.k, r.out))
       ELSE With(navigateSegments(k, SplitNonEmpty(target, "/", <<>>), e),
                 LAMBDA r : Ret(r.k, r.out))

\* handleHere, for the active tab of the last focused window (Null: none)
handleHere(k, focusedTab, e) ==
    IF focusedTab = Null THEN Ret(k, "No active tab found")
    ELSE IF k.activeTabId = focusedTab /\ isInsideTab(k) THEN Ret(k, "Already in tab")
    ELSE enterTab([k EXCEPT !.path = <<s_tabs>>], ToStr(focusedTab), e)

(***************************************************************************)
(* Navigation Kernel: ls, click, pwd                                        *)
(***************************************************************************)

\* parseArgs(args).positional
RECURSIVE Positional(_)
Positional(args) ==
    IF args = <<>> THEN <<>>
    ELSE LET a == Head(args)
         IN IF a \in {<<"-","n">>, <<"-","-","o","f","f","s","e","t">>,
                      <<"-","-","t","y","p","e">>} /\ Len(args) >= 2
            THEN Positional(Tail(Tail(args)))
            ELSE IF startsWith(a, <<"-">>) THEN Positional(Tail(args))
            ELSE <<a>> \o Positional(Tail(args))

\* handleLs: at browser level a listing of windows and tabs; inside a tab the
\* children of the current node, after ensureFreshTree
handleLs(k, args, e) ==
    IF Positional(args) # <<>> /\ startsWith(Positional(args)[1], s_tilde)
    THEN Ret(k, "browser listing")
    ELSE IF ~isInsideTab(k) THEN Ret(k, "browser listing")
    ELSE IF ensureInsideTab(k) # "" THEN Ret(k, ensureInsideTab(k))
    ELSE With(ensureFreshTree(k, e), LAMBDA fr :
            IF fr.thrown THEN Ret(fr.k, "Error: cdp")
            ELSE IF fr.k.axNodeIds = <<>> THEN RetF(fr.k, "Error: No DOM context", "", fr.msg)
            ELSE IF getChildVFSNodes(Last(fr.k.axNodeIds), fr.k.nodeMap) = <<>>
            THEN RetF(fr.k, "(empty directory)", "", fr.msg)
            ELSE RetF(fr.k, "listing", fr.msg, fr.msg))

\* handleClick: the element action needs the debugger on the tab; both
\* strategies fail without it
handleClick(k, args, e) ==
    IF ensureInsideTab(k) # "" THEN Ret(k, ensureInsideTab(k))
    ELSE With(ensureFreshTree(k, e), LAMBDA fr :
         LET R(k2, out) == RetF(k2, out, "", fr.msg)
         IN IF fr.thrown THEN Ret(fr.k, "Error: cdp")
            ELSE IF args = <<>> THEN R(fr.k, "Usage: click")
            ELSE IF fr.k.axNodeIds = <<>> THEN R(fr.k, "Error: No DOM context")
            ELSE With(findChildByName(Last(fr.k.axNodeIds), args[1], fr.k.nodeMap),
                      LAMBDA match :
                      IF match = NoVFS THEN R(fr.k, "click: NoSuchEntry")
                      ELSE IF match.backendDOMNodeId = 0
                      THEN R(fr.k, "click: NoBackingElement")
                      ELSE IF cdpSendOk(fr.k)
                      THEN R([fr.k EXCEPT !.treeStale = TRUE], "Clicked")
                      ELSE R(fr.k, "click failed")))

\* handleFocus
handleFocus(k, args, e) ==
    IF ensureInsideTab(k) # "" THEN Ret(k, ensureInsideTab(k))
    ELSE With(ensureFreshTree(k, e), LAMBDA fr :
         LET R(k2, out) == RetF(k2, out, "", fr.msg)
         IN IF fr.thrown THEN Ret(fr.k, "Error: cdp")
            ELSE IF args = <<>> THEN R(fr.k, "Usage: focus")
            ELSE IF fr.k.axNodeIds = <<>> THEN R(fr.k, "Error: No DOM context")
            ELSE With(findChildByName(Last(fr.k.axNodeIds), args[1], fr.k.nodeMap),
                      LAMBDA match :
                      IF match = NoVFS THEN R(fr.k, "focus: NoSuchEntry")
                      ELSE IF match.backendDOMNodeId = 0
                      THEN R(fr.k, "focus: NoBackingElement")
                      ELSE IF cdpSendOk(fr.k)
                      THEN R(fr.k, "Focused")
                      ELSE R(fr.k, "Error: cdp")))

\* handleType
handleType(k, args, e) ==
    IF ensureInsideTab(k) # "" THEN Ret(k, ensureInsideTab(k))
    ELSE IF args = <<>> THEN Ret(k, "Usage: type")
    ELSE IF cdpSendOk(k) THEN Ret(k, "Typed")
    ELSE Ret(k, "Error: cdp")

\* what handleCat, handleText, handleGrep, handleFind and handleTree do to the
\* session before they read the snapshot: the guard, the refresh, the usage
\* check (`usage`: the arguments are not enough) and getCurrentNodeId
ReadAfterRefresh(k, e, usage, out) ==
    IF ensureInsideTab(k) # "" THEN Ret(k, ensureInsideTab(k))
    ELSE With(ensureFreshTree(k, e), LAMBDA fr :
         IF fr.thrown THEN Ret(fr.k, "Error: cdp")
         ELSE IF usage THEN RetF(fr.k, "Usage", "", fr.msg)
         ELSE IF fr.k.axNodeIds = <<>> THEN RetF(fr.k, "Error: No DOM context", "", fr.msg)
         ELSE RetF(fr.k, out, "", fr.msg))

handleCat(k, args, e) == ReadAfterRefresh(k, e, args = <<>>, "cat")

handleText(k, args, e) == ReadAfterRefresh(k, e, FALSE, "text")

handleGrep(k, args, e) == ReadAfterRefresh(k, e, Positional(args) = <<>>, "grep")

handleFind(k, args, e) ==
    ReadAfterRefresh(k, e,
        Positional(args) = <<>> /\ <<"-","-","t","y","p","e">> \notin Range(args), "find")

handleTree(k, args, e) == ReadAfterRefresh(k, e, FALSE, "tree")

\* handleNavigate, in an environment e that shows the tab's document after
\* chrome.tabs.update and the wait for its load: the tab is detached and
\* forgotten, then attached and read again
handleNavigate(k, args, e) ==
    IF args = <<>> THEN Ret(k, "Usage: navigate")
    ELSE IF ensureInsideTab(k) # "" THEN Ret(k, ensureInsideTab(k))
    ELSE With([cdpDetach(k) EXCEPT !.activeTabId = Null], LAMBDA k1 :
         With(cdpSwitchToTab(k1, k.activeTabId, e), LAMBDA sw :
         IF sw.thrown THEN Ret(sw.k, "Re-attach failed")
         ELSE Ret([sw.k EXCEPT !.path = SliceToDomStart(@)], "Navigated")))

\* handlePwd: "~" and the segments joined by "/"
RECURSIVE JoinSlash(_)
JoinSlash(segs) ==
    IF segs = <<>> THEN <<>>
    ELSE IF Len(segs) = 1 THEN segs[1]
    ELSE segs[1] \o <<"/">> \o JoinSlash(Tail(segs))

handlePwd(k) == IF k.path = <<>> THEN s_tilde ELSE <<"~", "/">> \o JoinSlash(k.path)

(***************************************************************************)
(* Navigation Kernel: the command parser                                    *)
(***************************************************************************)

\* parseCommandLine: st = [parts, current, inQuote]
RECURSIVE ParseLoop(_, _)
ParseLoop(input, st) ==
    IF input = <<>>
    THEN (IF st.current # <<>> THEN Append(st.parts, st.current) ELSE st.parts)
    ELSE LET c == Head(input)
         IN ParseLoop(Tail(input),
              IF st.inQuote # ""
              THEN (IF c = st.inQuote THEN [st EXCEPT !.inQuote = ""]
                    ELSE [st EXCEPT !.current = Append(@, c)])
              ELSE IF c \in {"\"", "'"} THEN [st EXCEPT !.inQuote = c]
              ELSE IF c \in {" ", "\t"}
              THEN (IF st.current # <<>>
                    THEN [st EXCEPT !.parts = Append(@, st.current), !.current = <<>>]
                    ELSE st)
              ELSE [st EXCEPT !.current = Append(@, c)])

parseCommandLine(input) ==
    ParseLoop(input, [parts |-> <<>>, current |-> <<>>, inQuote |-> ""])

w_cd == <<"c","d">>
w_ls == <<"l","s">>
w_pwd == <<"p","w","d">>
w_here == <<"h","e","r","e">>
w_refresh == <<"r","e","f","r","e","s","h">>
w_click == <<"c","l","i","c","k">>
w_help == <<"-","-","h","e","l","p">>
w_focus == <<"f","o","c","u","s">>
w_type == <<"t","y","p","e">>
w_cat == <<"c","a","t">>
w_text == <<"t","e","x","t">>
w_grep == <<"g","r","e","p">>
w_find == <<"f","i","n","d">>
w_tree == <<"t","r","e","e">>
w_navigate == <<"n","a","v","i","g","a","t","e">>

\* the result of an executeCommand whose promise rejects: parts[0] is read
\* before the try block
Rejects == "<rejects: TypeError>"

\* executeCommand, for the active tab of the last focused window `focusedTab`
\* (read by `here` only). A handler's throw is caught and rendered as text.
executeCommand(k, raw, focusedTab, e) ==
    IF trim(raw) = <<>> THEN Ret(k, "")
    ELSE With(parseCommandLine(trim(raw)), LAMBDA parts :
         IF parts = <<>> THEN Ret(k, Rejects)
         ELSE With(toLowerCase(parts[1]), LAMBDA cmd :
              With(Tail(parts), LAMBDA args :
              IF w_help \in Range(args) THEN Ret(k, "help text")
              ELSE CASE cmd = w_cd -> handleCd(k, args, e)
                     [] cmd = w_ls -> handleLs(k, args, e)
                     [] cmd = w_pwd -> Ret(k, "pwd")
                     [] cmd = w_here -> handleHere(k, focusedTab, e)
                     [] cmd = w_refresh -> handleRefresh(k, e)
                     [] cmd = w_click -> handleClick(k, args, e)
                     [] cmd = w_focus -> handleFocus(k, args, e)
                     [] cmd = w_type -> handleType(k, args, e)
                     [] cmd = w_cat -> handleCat(k, args, e)
                     [] cmd = w_text -> handleText(k, args, e)
                     [] cmd = w_grep -> handleGrep(k, args, e)
                     [] cmd = w_find -> handleFind(k, args, e)
                     [] cmd = w_tree -> handleTree(k, args, e)
                     [] cmd = w_navigate -> handleNavigate(k, args, e)
                     [] OTHER -> Ret(k, "command not found"))))

(***************************************************************************)
(* The kernel as a state machine: one EXECUTE message handled at a time     *)
(***************************************************************************)

KState ==
    [path |-> path, axNodeIds |-> axNodeIds, activeTabId |-> activeTabId,
     nodeMap |-> nodeMap, treeStale |-> treeStale, attachedTabId |-> attachedTabId,
     dbg |-> dbg]

Env == [page |-> page, attachable |-> attachable]

SetK(k) ==
    /\ path' = k.path
    /\ axNodeIds' = k.axNodeIds
    /\ activeTabId' = k.activeTabId
    /\ nodeMap' = k.nodeMap
    /\ treeStale' = k.treeStale
    /\ attachedTabId' = k.attachedTabId
    /\ dbg' = k.dbg

Sp(a, b) == a \o <<" ">> \o b

c_cd_root == Sp(w_cd, s_tilde)
c_cd_up == Sp(w_cd, s_dotdot)
c_cd_nav == Sp(w_cd, s_nav)
c_cd_submit == Sp(w_cd, s_submit_btn)
c_cd_nav_menu == Sp(w_cd, s_nav \o <<"/">> \o s_menu)
c_cd_zzz == Sp(w_cd, <<"z","z","z">>)
c_cd_tabs == Sp(w_cd, s_tabs)
c_cd_tabs_7 == Sp(w_cd, s_tabs \o <<"/", "7">>)
c_cd_7 == Sp(w_cd, <<"7">>)
c_cd_abs_8 == Sp(w_cd, <<"~", "/">> \o s_tabs \o <<"/", "8">>)
c_cd_win_1 == Sp(w_cd, s_windows \o <<"/", "1">>)
c_ls == w_ls
c_pwd == w_pwd
c_here == w_here
c_refresh == w_refresh
c_click_submit == Sp(w_click, s_submit_btn)
c_quotes == <<"\"", "\"">>

\* the commands the caller sends
KernelCommands ==
    {c_cd_root, c_cd_up, c_cd_nav, c_cd_submit, c_cd_zzz, c_cd_tabs_7, c_cd_7,
     c_cd_abs_8, c_ls, c_refresh, c_click_submit, c_quotes}

\* the commands of a caller that reads the page and acts on its elements
c_cat == w_cat
c_cat_submit == Sp(w_cat, s_submit_btn)
c_text == w_text
c_text_nav == Sp(w_text, s_nav)
c_grep == w_grep
c_grep_a == Sp(w_grep, <<"a">>)
c_find == w_find
c_find_a == Sp(w_find, <<"a">>)
c_tree == w_tree
c_tree_1 == Sp(w_tree, <<"1">>)
c_ls_nav == Sp(w_ls, s_nav)
c_focus_submit == Sp(w_focus, s_submit_btn)
c_type_a == Sp(w_type, <<"a">>)

ReadCommands ==
    {c_ls, c_ls_nav, c_cat, c_cat_submit, c_text, c_text_nav, c_grep, c_grep_a,
     c_find, c_find_a, c_tree, c_tree_1}

ElementCommands == {c_click_submit, c_focus_submit, c_type_a}

PageCommands == {c_cd_tabs_7, c_cd_nav} \cup ReadCommands \cup ElementCommands

FocusChoices(raw) == IF raw = c_here THEN TabIds \cup {Null} ELSE {Null}

\* cmd .. fresh describe the last EXECUTE and its RESULT; pre* are the session
\* when it arrived; prePage is the document the active tab was showing then;
\* afterCdNav tells that the command handled before it was a `cd nav` that
\* entered the container from a tab's root.
NoLast ==
    [cmd |-> <<>>, prePage |-> "", executed |-> FALSE,
     out |-> "", notice |-> "", fresh |-> "",
     prePath |-> <<>>, preIds |-> <<>>, preActive |-> Null, preAttached |-> Null,
     preStale |-> FALSE, afterCdNav |-> FALSE]

\* the domain check of ws.onmessage: "skipped" (no allowlist, or no active
\* tab), "error" (the URL could not be read: the command proceeds), "allowed"
\* or "denied"
DomainAllowed(hostname, domains) ==
    \E i \in DOMAIN domains :
        hostname = domains[i] \/ endsWith(hostname, <<".">> \o domains[i])

DomainCheck(k, e, domains) ==
    IF domains = <<>> \/ k.activeTabId = Null THEN "skipped"
    ELSE With(getPageUrl(k, e), LAMBDA u :
         IF u.thrown THEN "error"
         ELSE IF DomainAllowed(Hostname(u.url), domains) THEN "allowed"
         ELSE "denied")

KernelInit ==
    /\ path = <<>>
    /\ axNodeIds = <<>>
    /\ activeTabId = Null
    /\ nodeMap = <<>>
    /\ treeStale = FALSE
    /\ attachedTabId = Null
    /\ dbg = {}
    /\ page = [t \in TabIds |-> IF t = 7 THEN "pA" ELSE "pE"]
    /\ attachable = TabIds
    /\ allowedDomains \in {<<>>, <<h_example>>}
    /\ last = NoLast

\* ws.onmessage for {type: "EXECUTE", command: raw, allowedDomains}; `after`
\* is the environment the command's handler meets once it has changed a
\* tab's document itself
WsExecuteIn(raw, focusedTab, after) ==
    With([cmd |-> raw,
          prePage |-> IF activeTabId # Null THEN page[activeTabId] ELSE "",
          prePath |-> path, preIds |-> axNodeIds, preActive |-> activeTabId,
          preAttached |-> attachedTabId, preStale |-> treeStale,
          afterCdNav |-> /\ last.cmd = c_cd_nav
                         /\ last.executed
                         /\ Len(last.prePath) = 2
                         /\ last.prePath[1] = s_tabs
                         /\ path = Append(last.prePath, s_nav)], LAMBDA pre :
    IF DomainCheck(KState, Env, allowedDomains) = "denied"
    THEN /\ last' = pre @@ [executed |-> FALSE, out |-> "Error: DomainNotAllowed",
                           notice |-> "", fresh |-> ""]
         /\ UNCHANGED <<path, axNodeIds, activeTabId, nodeMap, treeStale,
                        attachedTabId, dbg>>
    ELSE With(executeCommand(KState, raw, focusedTab, after), LAMBDA r :
         /\ last' = pre @@ [executed |-> TRUE, out |-> r.out,
                           notice |-> r.notice, fresh |-> r.fresh]
         /\ SetK(r.k)))

WsExecute(raw, focusedTab) == WsExecuteIn(raw, focusedTab, Env)

Execute ==
    /\ \E raw \in KernelCommands : \E f \in FocusChoices(raw) : WsExecute(raw, f)
    /\ UNCHANGED <<page, attachable, allowedDomains>>
    /\ UNCHANGED <<mapVars, attachVars, gwVars, wsVars, pureVars>>

\* chrome.debugger.onEvent listener, for Page.frameNavigated,
\* Page.loadEventFired or DOM.documentUpdated from tab t
CdpEvent ==
    /\ \E t \in dbg :
          /\ t = activeTabId
          /\ treeStale' = TRUE
    /\ UNCHANGED <<path, axNodeIds, activeTabId, nodeMap, attachedTabId, dbg,
                   page, attachable, allowedDomains, last>>
    /\ UNCHANGED <<mapVars, attachVars, gwVars, wsVars, pureVars>>

\* the browser: a tab's document changes (navigation or DOM mutation)
PageChange ==
    /\ \E t \in TabIds : \E p \in PagesOf(t) \ {page[t]} :
          page' = [page EXCEPT ![t] = p]
    /\ UNCHANGED <<path, axNodeIds, activeTabId, nodeMap, treeStale, attachedTabId,
                   dbg, attachable, allowedDomains, last>>
    /\ UNCHANGED <<mapVars, attachVars, gwVars, wsVars, pureVars>>

\* the tabs on which the user opens DevTools
FragileTabs == {8}

\* the browser: a tab stops or starts accepting the debugger (DevTools opened
\* on it, or closed)
ToggleAttachable ==
    /\ \E t \in FragileTabs :
          attachable' = IF t \in attachable THEN attachable \ {t} ELSE attachable \cup {t}
    /\ UNCHANGED <<path, axNodeIds, activeTabId, nodeMap, treeStale, attachedTabId,
                   dbg, page, allowedDomains, last>>
    /\ UNCHANGED <<mapVars, attachVars, gwVars, wsVars, pureVars>>

KernelNext == Execute \/ CdpEvent \/ PageChange \/ ToggleAttachable

\* a caller that enters a tab, reads the page and acts on its elements
ExecuteOnPage ==
    /\ \E raw \in PageCommands : WsExecute(raw, Null)
    /\ UNCHANGED <<page, attachable, allowedDomains>>
    /\ UNCHANGED <<mapVars, attachVars, gwVars, wsVars, pureVars>>

PageNext == ExecuteOnPage \/ CdpEvent \/ PageChange

\* a caller that enters tab 7, descends and reads while a script of the page
\* relabels an element
DescendCommands == {c_cd_tabs_7, c_cd_nav, c_cd_nav_menu, c_cd_up, c_ls, c_cat_submit, c_text}

ExecuteDescending ==
    /\ \E raw \in DescendCommands : WsExecute(raw, Null)
    /\ UNCHANGED <<page, attachable, allowedDomains>>
    /\ UNCHANGED <<mapVars, attachVars, gwVars, wsVars, pureVars>>

\* the page's script changes the label: the document of tab 7 keeps its nodes
DomMutates ==
    /\ page[7] \in {"pA", "pA3"}
    /\ page' = [page EXCEPT ![7] = IF page[7] = "pA" THEN "pA3" ELSE "pA"]
    /\ UNCHANGED <<path, axNodeIds, activeTabId, nodeMap, treeStale, attachedTabId,
                   dbg, attachable, allowedDomains, last>>
    /\ UNCHANGED <<mapVars, attachVars, gwVars, wsVars, pureVars>>

MutateNext == ExecuteDescending \/ CdpEvent \/ DomMutates

\* a caller that enters a tab, descends and navigates the tab to a URL
c_navigate == w_navigate
c_navigate_example == Sp(w_navigate, h_example)

c_cd_8 == Sp(w_cd, <<"8">>)

WanderCommands ==
    {c_cd_tabs_7, c_cd_abs_8, c_cd_win_1, c_cd_7, c_cd_8, c_cd_nav, c_cd_nav_menu}

NavigateCommands == {c_navigate, c_navigate_example}

\* the depth the caller descends to
MaxPath == 5

ExecuteWandering ==
    /\ Len(path) < MaxPath
    /\ \E raw \in WanderCommands : WsExecute(raw, Null)
    /\ UNCHANGED <<page, attachable, allowedDomains>>
    /\ UNCHANGED <<mapVars, attachVars, gwVars, wsVars, pureVars>>

\* handleNavigate reaches chrome.tabs.update(state.activeTabId, {url})
Navigates(raw) ==
    /\ raw = c_navigate_example
    /\ DomainCheck(KState, Env, allowedDomains) # "denied"
    /\ ensureInsideTab(KState) = ""

\* an EXECUTE with a navigate command; the URL's site answers with one of the
\* documents the tab can show
ExecuteNavigate ==
    /\ \E raw \in NavigateCommands :
          IF Navigates(raw)
          THEN \E loaded \in PagesOf(activeTabId) :
                  /\ page' = [page EXCEPT ![activeTabId] = loaded]
                  /\ WsExecuteIn(raw, Null, [page |-> page', attachable |-> attachable])
          ELSE /\ WsExecute(raw, Null)
               /\ UNCHANGED page
    /\ UNCHANGED <<attachable, allowedDomains>>
    /\ UNCHANGED <<mapVars, attachVars, gwVars, wsVars, pureVars>>

NavigateNext == ExecuteWandering \/ ExecuteNavigate \/ CdpEvent \/ ToggleAttachable

(***************************************************************************)
(* Overlapping commands. ws.onmessage and port.onMessage are async handlers *)
(* with no queue: a second command starts while the first awaits the        *)
(* browser. Each caller runs `cd ~/tabs/<tab>`; a step runs from one        *)
(* browser call (chrome.tabs.get, chrome.debugger.attach / detach /         *)
(* sendCommand) to the next.                                                *)
(***************************************************************************)

Callers == {1, 2}

IdleTask == [pc |-> "idle", tab |-> Null, old |-> Null]

TaskUnchanged == UNCHANGED <<treeStale, page, attachable, allowedDomains, last,
                             mapVars, gwVars, wsVars, pureVars>>

\* handleCd and navigateSegments up to enterTab's await of resolveTabTarget
CdStart(c) ==
    /\ tasks[c].pc = "idle"
    /\ \E tab \in TabIds : tasks' = [tasks EXCEPT ![c] = [pc |-> "resolving", tab |-> tab,
                                                          old |-> Null]]
    /\ path' = <<s_tabs>>
    /\ UNCHANGED <<axNodeIds, activeTabId, nodeMap, attachedTabId, dbg>>
    /\ TaskUnchanged

\* enterTab after resolveTabTarget, cdpSwitchToTab and CDPClient.attach up to
\* the call of chrome.debugger.detach or chrome.debugger.attach
CdResolved(c) ==
    /\ tasks[c].pc = "resolving"
    /\ path' = Append(path, ToStr(tasks[c].tab))
    /\ IF activeTabId = tasks[c].tab /\ nodeMap # <<>>
       THEN /\ tasks' = [tasks EXCEPT ![c] = IdleTask]
            /\ UNCHANGED <<activeTabId, attachedTabId>>
       ELSE IF attachedTabId = tasks[c].tab
       THEN /\ tasks' = [tasks EXCEPT ![c].pc = "fetching"]
            /\ activeTabId' = tasks[c].tab
            /\ UNCHANGED attachedTabId
       ELSE IF attachedTabId # Null
       THEN /\ tasks' = [tasks EXCEPT ![c].pc = "detaching", ![c].old = attachedTabId]
            /\ attachedTabId' = Null
            /\ UNCHANGED activeTabId
       ELSE /\ tasks' = [tasks EXCEPT ![c].pc = "attaching"]
            /\ UNCHANGED <<activeTabId, attachedTabId>>
    /\ UNCHANGED <<axNodeIds, nodeMap, dbg>>
    /\ TaskUnchanged

\* CDPClient.detach: chrome.debugger.detach completes; attach goes on to call
\* chrome.debugger.attach
CdDetached(c) ==
    /\ tasks[c].pc = "detaching"
    /\ dbg' = dbg \ {tasks[c].old}
    /\ tasks' = [tasks EXCEPT ![c].pc = "attaching"]
    /\ UNCHANGED <<path, axNodeIds, activeTabId, nodeMap, attachedTabId>>
    /\ TaskUnchanged

\* CDPClient.attach: chrome.debugger.attach completes and its callback runs
CdAttached(c) ==
    /\ tasks[c].pc = "attaching"
    /\ IF tasks[c].tab \in attachable /\ tasks[c].tab \notin dbg
       THEN /\ dbg' = dbg \cup {tasks[c].tab}
            /\ attachedTabId' = tasks[c].tab
            /\ tasks' = [tasks EXCEPT ![c].pc = "enabling"]
       ELSE /\ tasks' = [tasks EXCEPT ![c] = IdleTask]
            /\ UNCHANGED <<dbg, attachedTabId>>
    /\ UNCHANGED <<path, axNodeIds, activeTabId, nodeMap>>
    /\ TaskUnchanged

\* CDPClient.attach: the four enable commands; cdpSwitchToTab goes on to call
\* getAllFrameAXTrees
CdEnabled(c) ==
    /\ tasks[c].pc = "enabling"
    /\ IF cdpSendOk(KState)
       THEN /\ activeTabId' = tasks[c].tab
            /\ tasks' = [tasks EXCEPT ![c].pc = "fetching"]
       ELSE /\ tasks' = [tasks EXCEPT ![c] = IdleTask]
            /\ UNCHANGED activeTabId
    /\ UNCHANGED <<path, axNodeIds, nodeMap, attachedTabId, dbg>>
    /\ TaskUnchanged

\* cdpSwitchToTab after getAllFrameAXTrees, and the rest of enterTab
CdFetched(c) ==
    /\ tasks[c].pc = "fetching"
    /\ With(getAllFrameAXTrees(KState, Env), LAMBDA f :
          IF f.thrown THEN UNCHANGED <<nodeMap, axNodeIds>>
          ELSE /\ nodeMap' = buildNodeMap(f.nodes)
               /\ axNodeIds' = RootChain(buildNodeMap(f.nodes)))
    /\ tasks' = [tasks EXCEPT ![c] = IdleTask]
    /\ UNCHANGED <<path, activeTabId, attachedTabId, dbg>>
    /\ TaskUnchanged

AttachNext ==
    \E c \in Callers :
        \/ CdStart(c)
        \/ CdResolved(c)
        \/ CdDetached(c)
        \/ CdAttached(c)
        \/ CdEnabled(c)
        \/ CdFetched(c)

(***************************************************************************)
(* Gateway (mcp-server/index.ts)                                            *)
(***************************************************************************)

\* the configured token (--token, or 24 random bytes: never empty) and another
AUTH_TOKEN == <<"s", "3">>
t_other == <<"x">>

\* String.split(sep), empty pieces kept
RECURSIVE Split(_, _, _)
Split(s, sep, cur) ==
    IF s = <<>> THEN <<cur>>
    ELSE IF Head(s) = sep THEN <<cur>> \o Split(Tail(s), sep, <<>>)
    ELSE Split(Tail(s), sep, Append(cur, Head(s)))

\* String.split(/\s+/) of a trimmed string: the maximal runs of non-whitespace
RECURSIVE SplitSpaces(_, _)
SplitSpaces(s, cur) ==
    IF s = <<>> THEN <<cur>>
    ELSE IF IsSpace(Head(s))
    THEN (IF cur = <<>> THEN SplitSpaces(Tail(s), cur)
          ELSE <<cur>> \o SplitSpaces(Tail(s), <<>>))
    ELSE SplitSpaces(Tail(s), Append(cur, Head(s)))

w_goto == <<"g","o","t","o">>
w_open == <<"o","p","e","n">>
w_whoami == <<"w","h","o","a","m","i">>

NAVIGATE_COMMANDS == {w_navigate, w_goto, w_open}
WRITE_COMMANDS == {w_click, w_focus, w_type}
SENSITIVE_COMMANDS == {w_whoami}

\* command.trim().split(/\s+/)[0]?.toLowerCase() ?? ""
FirstWord(command) == toLowerCase(SplitSpaces(trim(command), <<>>)[1])

getCommandTier(command) ==
    With(FirstWord(command), LAMBDA cmd :
        IF cmd \in NAVIGATE_COMMANDS THEN "navigate"
        ELSE IF cmd \in WRITE_COMMANDS THEN "write"
        ELSE IF cmd \in SENSITIVE_COMMANDS THEN "sensitive"
        ELSE "read")

\* the fixed rejection messages
reasonNavigate == "Navigation commands (navigate/open) are disabled."
reasonWrite == "Write commands (click/focus/type) are disabled."
reasonSensitive == "Sensitive commands (whoami) are disabled."
FixedRejections == {reasonNavigate, reasonWrite, reasonSensitive}

isCommandAllowed_noWriteCheck(command, fl) ==
    With(getCommandTier(command), LAMBDA tier :
        IF tier = "navigate" /\ ~fl.allowWrite
        THEN [allowed |-> FALSE, reason |-> reasonNavigate]
        ELSE IF tier = "sensitive" /\ ~fl.allowSensitive
        THEN [allowed |-> FALSE, reason |-> reasonSensitive]
        ELSE [allowed |-> TRUE, reason |-> ""])

isCommandAllowed(command, fl) ==
    With(getCommandTier(command), LAMBDA tier :
        IF tier = "navigate" /\ ~fl.allowWrite
        THEN [allowed |-> FALSE, reason |-> reasonNavigate]
        ELSE IF tier = "write" /\ ~fl.allowWrite
        THEN [allowed |-> FALSE, reason |-> reasonWrite]
        ELSE IF tier = "sensitive" /\ ~fl.allowSensitive
        THEN [allowed |-> FALSE, reason |-> reasonSensitive]
        ELSE [allowed |-> TRUE, reason |-> ""])

\* confirmAction's reading of the answer typed at /dev/tty
Approves(answer) == toLowerCase(trim(answer)) \in {<<"y">>, <<"y","e","s">>}

resultDenied == "Action denied by user."
resultNotConnected == "Error: Extension not connected."
resultTimedOut == "Error: Command timed out after 30 seconds"
resultOfKernel == "<the RESULT's text>"
resultDomainDenied == "Error: Domain is not in the allowed list"

\* the texts a RESULT of the extension carries: the kernel's output or, when
\* the Gateway sends an allowlist, the refusal of ws.onmessage's domain check
ResultTexts ==
    IF allowedDomains = <<>> THEN {resultOfKernel}
    ELSE {resultOfKernel, resultDomainDenied}

\* mcpAuthMiddleware: TRUE when it calls next(), FALSE when it answers 401.
\* header is the Authorization header and query the ?token= parameter, Absent
\* when the request has none.
mcpAuthMiddleware_anyBearer(header, query) ==
    \/ /\ header # Absent /\ header # <<>>
       /\ With(Split(header, " ", <<>>), LAMBDA hp :
             toLowerCase(hp[1]) = <<"b","e","a","r","e","r">>)
    \/ query = AUTH_TOKEN

mcpAuthMiddleware(header, query) ==
    \/ /\ header # Absent /\ header # <<>>
       /\ With(Split(header, " ", <<>>), LAMBDA hp :
             /\ toLowerCase(hp[1]) = <<"b","e","a","r","e","r">>
             /\ Len(hp) >= 2
             /\ hp[2] = AUTH_TOKEN)
    \/ query = AUTH_TOKEN

\* Bounds of the gateway's exploration
MaxCalls == 1
MaxConns == 2
MaxSessions == 1
MaxBridgeCalls == 2

\* the command strings the callers send
g_click == <<" ", "C","l","i","c","k"," "," ">> \o s_submit_btn
g_navigate == Sp(w_navigate, <<"u">>)
g_whoami == w_whoami
g_ls == w_ls
GatewayCommands == {g_click, g_navigate, g_whoami, g_ls}

\* Authorization headers and ?token= parameters of the requests
hdr_good == <<"b","e","a","r","e","r"," ">> \o AUTH_TOKEN
hdr_other == <<"B","e","a","r","e","r"," ">> \o t_other
hdr_basic == <<"B","a","s","i","c"," ">> \o AUTH_TOKEN
Headers == {Absent, hdr_good, hdr_other, hdr_basic}
Queries == {Absent, AUTH_TOKEN, t_other}

\* what the user may type at the prompt
a_YES == <<"Y","E","S","\n">>
a_n == <<"n", "\n">>
a_yep == <<"y","e","p","\n">>
Answers == {a_YES, a_n, a_yep}

NoHttp == [carried |-> FALSE, outcome |-> "none", sessions |-> 0, calls |-> 0]

GatewayInit ==
    /\ flags \in [allowWrite : BOOLEAN, allowSensitive : BOOLEAN, noConfirm : BOOLEAN]
    /\ transports = {}
    /\ calls = <<>>
    /\ pendingRequests = {}
    /\ sent = <<>>
    /\ conns = <<>>
    /\ extensionClient = Null
    /\ prompt = Null
    /\ elapsed = FALSE
    /\ auditLog = <<>>
    /\ lastHttp = NoHttp

GatewayOnly == UNCHANGED <<mapVars, kernelVars, attachVars, wsVars, pureVars>>

\* the request presents the configured token somewhere: in its Authorization
\* header or as its ?token= parameter
CarriesToken(header, query) ==
    \/ query = AUTH_TOKEN
    \/ header # Absent /\ Includes(header, AUTH_TOKEN)

\* carried tells whether the request carried the token; sessions and calls
\* count the sessions and the invocations that existed when it arrived
Http(header, query, outcome) ==
    [carried |-> CarriesToken(header, query), outcome |-> outcome,
     sessions |-> Cardinality(transports), calls |-> Len(calls)]

Audit(kind, c) == [kind |-> kind, call |-> c]

Forward_queues(cs, c) ==
    /\ calls' = [cs EXCEPT ![c].state = "waiting", ![c].down = (extensionClient = Null)]
    /\ pendingRequests' = pendingRequests \cup {c}
    /\ sent' = IF extensionClient = Null THEN sent
               ELSE Append(sent, [type |-> "EXECUTE", id |-> c, command |-> cs[c].cmd,
                                  to |-> extensionClient])
    /\ auditLog' = Append(auditLog, Audit("EXECUTE", c))

\* executeWithSecurity from its "Execute" step on, for call c of cs: the audit
\* entry, sendCommand, and the catch of sendCommand's immediate rejection
Forward(cs, c) ==
    IF extensionClient = Null
    THEN /\ calls' = [cs EXCEPT ![c].state = "done", ![c].result = resultNotConnected,
                                ![c].down = TRUE]
         /\ auditLog' = auditLog \o <<Audit("EXECUTE", c), Audit("ERROR", c)>>
         /\ UNCHANGED <<pendingRequests, sent>>
    ELSE /\ calls' = [cs EXCEPT ![c].state = "waiting"]
         /\ pendingRequests' = pendingRequests \cup {c}
         /\ sent' = Append(sent, [type |-> "EXECUTE", id |-> c, command |-> cs[c].cmd,
                                  to |-> extensionClient])
         /\ auditLog' = Append(auditLog, Audit("EXECUTE", c))

\* a request to /mcp that mcpAuthMiddleware answers with 401
HttpUnauthorized ==
    /\ prompt = Null
    /\ \E header \in Headers, query \in Queries :
          /\ ~mcpAuthMiddleware(header, query)
          /\ lastHttp' = Http(header, query, "401")
    /\ UNCHANGED <<flags, transports, calls, pendingRequests, sent, conns,
                   extensionClient, prompt, elapsed, auditLog>>
    /\ GatewayOnly

\* POST /mcp without a session id, carrying an initialize request
HttpInitialize ==
    /\ prompt = Null
    /\ Cardinality(transports) < MaxSessions
    /\ \E header \in Headers, query \in Queries :
          /\ mcpAuthMiddleware(header, query)
          /\ transports' = transports \cup {Cardinality(transports) + 1}
          /\ lastHttp' = Http(header, query, "session")
    /\ UNCHANGED <<flags, calls, pendingRequests, sent, conns, extensionClient,
                   prompt, elapsed, auditLog>>
    /\ GatewayOnly

\* POST /mcp with neither a known session id nor an initialize request
HttpBadRequest ==
    /\ prompt = Null
    /\ \E header \in Headers, query \in Queries :
          /\ mcpAuthMiddleware(header, query)
          /\ lastHttp' = Http(header, query, "400")
    /\ UNCHANGED <<flags, transports, calls, pendingRequests, sent, conns,
                   extensionClient, prompt, elapsed, auditLog>>
    /\ GatewayOnly

\* POST /mcp of a known session carrying a tool call: executeWithSecurity up to
\* its first wait (the blocking read of the prompt, or the RESULT)
ToolCall ==
    /\ prompt = Null
    /\ \E header \in Headers, query \in Queries, sid \in transports,
          command \in GatewayCommands, ttyOpens \in BOOLEAN :
          /\ mcpAuthMiddleware(header, query)
          /\ lastHttp' = Http(header, query, "call")
          /\ LET c == Len(calls) + 1
                 cs == Append(calls, [cmd |-> command, state |-> "new", result |-> "",
                                      confirm |-> "none", answer |-> <<>>,
                                      down |-> FALSE, late |-> FALSE])
                 check == isCommandAllowed(command, flags)
             IN IF ~check.allowed
                THEN /\ calls' = [cs EXCEPT ![c].state = "done", ![c].result = check.reason]
                     /\ auditLog' = Append(auditLog, Audit("DENIED", c))
                     /\ UNCHANGED <<pendingRequests, sent, prompt>>
                ELSE IF getCommandTier(command) = "write" /\ ~flags.noConfirm
                THEN IF ttyOpens
                     THEN /\ calls' = [cs EXCEPT ![c].state = "blocked",
                                                 ![c].confirm = "asked"]
                          /\ prompt' = c
                          /\ UNCHANGED <<pendingRequests, sent, auditLog>>
                     ELSE /\ calls' = [cs EXCEPT ![c].state = "done",
                                                 ![c].confirm = "unavailable",
                                                 ![c].result = resultDenied]
                          /\ auditLog' = Append(auditLog, Audit("DENIED by user", c))
                          /\ UNCHANGED <<pendingRequests, sent, prompt>>
                ELSE Forward(cs, c) /\ UNCHANGED prompt
    /\ UNCHANGED <<flags, transports, conns, extensionClient, elapsed>>
    /\ GatewayOnly

\* a tool call while at most MaxCalls invocations are made
HttpToolCall ==
    /\ Len(calls) < MaxCalls
    /\ ToolCall

\* confirmAction: readSync returns with what the user typed; the rest of
\* executeWithSecurity up to the wait for the RESULT
TtyAnswer ==
    /\ prompt # Null
    /\ \E answer \in Answers :
          LET c == prompt
              cs == [calls EXCEPT ![c].answer = answer,
                                  ![c].confirm = IF Approves(answer) THEN "yes" ELSE "no"]
          IN IF Approves(answer)
             THEN Forward(cs, c)
             ELSE /\ calls' = [cs EXCEPT ![c].state = "done", ![c].result = resultDenied]
                  /\ auditLog' = Append(auditLog, Audit("DENIED by user", c))
                  /\ UNCHANGED <<pendingRequests, sent>>
    /\ prompt' = Null
    /\ elapsed' = FALSE
    /\ UNCHANGED <<flags, transports, conns, extensionClient, lastHttp>>
    /\ GatewayOnly

\* 60 seconds pass with the prompt unanswered: the process is inside readSync,
\* and the timer of confirmAction is set only after readSync has returned
PromptElapses ==
    /\ prompt # Null
    /\ ~elapsed
    /\ elapsed' = TRUE
    /\ UNCHANGED <<flags, transports, calls, pendingRequests, sent, conns,
                   extensionClient, prompt, auditLog, lastHttp>>
    /\ GatewayOnly

\* wss.on("connection") for a connection whose URL carries ?token=<token>
WsConnection ==
    /\ prompt = Null
    /\ Len(conns) < MaxConns
    /\ \E token \in {Absent, AUTH_TOKEN, t_other} :
          LET n == Len(conns) + 1
          IN IF token # AUTH_TOKEN
             THEN /\ conns' = Append(conns, [token |-> token, open |-> FALSE])
                  /\ auditLog' = Append(auditLog, Audit("REJECTED", 0))
                  /\ UNCHANGED extensionClient
             ELSE /\ conns' = Append(
                        [i \in DOMAIN conns |->
                            IF i = extensionClient THEN [conns[i] EXCEPT !.open = FALSE]
                            ELSE conns[i]],
                        [token |-> token, open |-> TRUE])
                  /\ extensionClient' = n
                  /\ auditLog' = Append(auditLog, Audit("CONNECTED", 0))
    /\ UNCHANGED <<flags, transports, calls, pendingRequests, sent, prompt, elapsed,
                   lastHttp>>
    /\ GatewayOnly

\* ws.on("close") of the extension client
WsClose ==
    /\ prompt = Null
    /\ extensionClient # Null
    /\ conns' = [conns EXCEPT ![extensionClient].open = FALSE]
    /\ extensionClient' = Null
    /\ auditLog' = Append(auditLog, Audit("DISCONNECTED", 0))
    /\ UNCHANGED <<flags, transports, calls, pendingRequests, sent, prompt, elapsed,
                   lastHttp>>
    /\ GatewayOnly

\* the extension has been sent the EXECUTE of invocation c and has not yet
\* returned its RESULT
AwaitsResult(c) ==
    /\ \E i \in DOMAIN sent : sent[i].id = c
    /\ calls[c].result \notin {resultOfKernel, resultDomainDenied}
    /\ ~calls[c].late

OnResult_anyPending(c, text) ==
    IF pendingRequests # {}
    THEN With(CHOOSE d \in pendingRequests : d = c \/ c \notin pendingRequests,
              LAMBDA d :
              /\ pendingRequests' = pendingRequests \ {d}
              /\ calls' = [calls EXCEPT ![d].state = "done", ![d].result = text,
                                        ![c].late = (c # d)]
              /\ auditLog' = Append(auditLog, Audit("RESULT", d)))
    ELSE /\ calls' = [calls EXCEPT ![c].late = TRUE]
         /\ UNCHANGED <<pendingRequests, auditLog>>

\* ws.on("message") for the RESULT of invocation c: with the id of a pending
\* request, the request is resolved and executeWithSecurity goes on; with any
\* other id the message is dropped
OnResult(c, text) ==
    IF c \in pendingRequests
    THEN /\ pendingRequests' = pendingRequests \ {c}
         /\ calls' = [calls EXCEPT ![c].state = "done", ![c].result = text]
         /\ auditLog' = Append(auditLog, Audit("RESULT", c))
    ELSE /\ calls' = [calls EXCEPT ![c].late = TRUE]
         /\ UNCHANGED <<pendingRequests, auditLog>>

WsResult ==
    /\ prompt = Null
    /\ extensionClient # Null
    /\ \E c \in DOMAIN calls, text \in ResultTexts :
          AwaitsResult(c) /\ OnResult(c, text)
    /\ UNCHANGED <<flags, transports, sent, conns, extensionClient, prompt, elapsed,
                   lastHttp>>
    /\ GatewayOnly

\* the 30-second timer of sendCommand fires, and the catch of
\* executeWithSecurity
TimerFires(c) ==
    /\ prompt = Null
    /\ c \in pendingRequests
    /\ pendingRequests' = pendingRequests \ {c}
    /\ calls' = [calls EXCEPT ![c].state = "done", ![c].result = resultTimedOut]
    /\ auditLog' = Append(auditLog, Audit("ERROR", c))
    /\ UNCHANGED <<flags, transports, sent, conns, extensionClient, prompt, elapsed,
                   lastHttp>>
    /\ GatewayOnly

CommandTimeout == \E c \in DOMAIN calls : TimerFires(c)

GatewayNext ==
    \/ HttpUnauthorized
    \/ HttpInitialize
    \/ HttpBadRequest
    \/ HttpToolCall
    \/ TtyAnswer
    \/ PromptElapses
    \/ WsConnection
    \/ WsClose
    \/ WsResult
    \/ CommandTimeout

\* a tool call while up to MaxBridgeCalls invocations may overlap
BridgeToolCall ==
    /\ Len(calls) < MaxBridgeCalls
    /\ ToolCall

\* the bridge serving authenticated sessions: the requests that the middleware
\* or the router rejects leave the bridge as it is
BridgeNext ==
    \/ HttpInitialize
    \/ BridgeToolCall
    \/ TtyAnswer
    \/ PromptElapses
    \/ WsConnection
    \/ WsClose
    \/ WsResult
    \/ CommandTimeout

\* ---------------------------------------------------------------------------
\* Properties of the gateway
\* ---------------------------------------------------------------------------

\* an EXECUTE message for invocation c was written to the bridge
Forwarded(c) == \E i \in DOMAIN sent : sent[i].id = c

\* the flag that the tier of invocation c requires is off
TierDisabled(c) ==
    \/ getCommandTier(calls[c].cmd) \in {"write", "navigate"} /\ ~flags.allowWrite
    \/ getCommandTier(calls[c].cmd) = "sensitive" /\ ~flags.allowSensitive

\* the fixed message that rejects the tier of invocation c
TierRejection(c) ==
    CASE getCommandTier(calls[c].cmd) = "navigate" -> reasonNavigate
      [] getCommandTier(calls[c].cmd) = "write" -> reasonWrite
      [] getCommandTier(calls[c].cmd) = "sensitive" -> reasonSensitive
      [] OTHER -> ""

\* C1: a command whose tier is write or navigate while the write flag is off,
\* or sensitive while the sensitive flag is off, is answered with the fixed
\* rejection message of its tier, and no EXECUTE message for it is ever sent
\* to the extension.
C1_TierGate ==
    \A c \in DOMAIN calls :
        TierDisabled(c) =>
            /\ calls[c].state = "done"
            /\ calls[c].result = TierRejection(c)
            /\ ~Forwarded(c)

\* a write command was rejected for its tier while an extension was connected
\* and ready to take it
C1_Witness ==
    \E c \in DOMAIN calls :
        /\ getCommandTier(calls[c].cmd) = "write"
        /\ ~flags.allowWrite
        /\ calls[c].result = reasonWrite
        /\ extensionClient # Null

\* invocation c is a write command that has to be confirmed at the terminal
NeedsConfirmation(c) ==
    /\ getCommandTier(calls[c].cmd) = "write"
    /\ flags.allowWrite
    /\ ~flags.noConfirm

\* C2: with confirmation enabled, a write command is forwarded only after an
\* explicit yes typed at the terminal; an explicit no or an unavailable
\* terminal yields the user-denied result without forwarding, and so does a
\* prompt left unanswered for the 60 seconds of the timeout.
C2_ConfirmedWrites ==
    \A c \in DOMAIN calls :
        NeedsConfirmation(c) =>
            /\ Forwarded(c) => calls[c].confirm = "yes" /\ Approves(calls[c].answer)
            /\ calls[c].confirm \in {"no", "unavailable"} =>
                  calls[c].result = resultDenied /\ ~Forwarded(c)
            /\ (prompt = c /\ elapsed) =>
                  calls[c].state = "done" /\ calls[c].result = resultDenied

\* C34: a confirmation prompt is bounded: once the 60 seconds of the timeout
\* have passed without an answer the Gateway is not waiting in the prompt any
\* more (the command was denied and requests are served again).
C34_PromptIsBounded == elapsed => prompt = Null

\* C3: nothing is handled without the configured token.  A request to /mcp
\* that passed the middleware carried the token; a request that did not carry
\* it was answered 401 and neither created a session nor started an
\* invocation; a bridge connection with another token, or none, is closed and
\* is never the extension client, and no EXECUTE message is written to it.
C3_TokenRequired ==
    /\ lastHttp.outcome \in {"session", "400", "call"} => lastHttp.carried
    /\ ~lastHttp.carried => lastHttp.outcome \in {"none", "401"}
    /\ lastHttp.outcome = "401" =>
          /\ Cardinality(transports) = lastHttp.sessions
          /\ Len(calls) = lastHttp.calls
    /\ \A i \in DOMAIN conns :
          conns[i].token # AUTH_TOKEN => ~conns[i].open /\ extensionClient # i
    /\ \A i \in DOMAIN sent : conns[sent[i].to].token = AUTH_TOKEN

\* a request with another token was answered 401 while a session and an
\* extension client existed, and a connection with another token was closed
C3_Witness ==
    /\ lastHttp.outcome = "401"
    /\ ~lastHttp.carried
    /\ transports # {}
    /\ extensionClient # Null
    /\ \E i \in DOMAIN conns : conns[i].token = t_other /\ ~conns[i].open

\* the invocations that may exist
CallIds == 1..MaxBridgeCalls

\* an entry of the outstanding-request table belongs to an invocation waiting
\* for its RESULT, and an invocation that left the table after being forwarded
\* ended with the extension's result or with the timeout error
PendingTracked ==
    \A c \in DOMAIN calls :
        /\ c \in pendingRequests => calls[c].state = "waiting" /\ Forwarded(c)
        /\ (Forwarded(c) /\ c \notin pendingRequests) =>
              /\ calls[c].state = "done"
              /\ calls[c].result \in {resultOfKernel, resultDomainDenied, resultTimedOut}

\* an entry enters the table only for an invocation that has not been
\* forwarded before, so an entry that was removed never comes back
PendingAddedOnce ==
    \A c \in CallIds :
        (c \in pendingRequests' /\ c \notin pendingRequests) =>
            ~(c \in DOMAIN calls /\ Forwarded(c))

\* the RESULT of an invocation that is no longer in the table has arrived; the
\* invocation keeps the timeout error it ended with
LateKeepsTimeout ==
    \A c \in DOMAIN calls :
        calls[c].late => calls[c].state = "done" /\ calls[c].result = resultTimedOut

\* the step in which such a RESULT arrives completes no request
LateDiscarded ==
    \A c \in DOMAIN calls :
        (~calls[c].late /\ calls'[c].late) =>
            /\ pendingRequests' = pendingRequests
            /\ \A d \in DOMAIN calls :
                  calls'[d].state = calls[d].state /\ calls'[d].result = calls[d].result

\* C13: a result that arrives after its command has timed out is discarded:
\* it completes neither the timed-out request nor any other outstanding one,
\* and the caller of the timed-out command keeps the timeout error.
C13_LateResultDiscarded == []LateKeepsTimeout /\ [][LateDiscarded]_vars

\* the late RESULT of a timed-out invocation arrived while another request was
\* outstanding
C13_Witness ==
    \E c \in DOMAIN calls :
        /\ calls[c].late
        /\ calls[c].result = resultTimedOut
        /\ pendingRequests \ {c} # {}

\* invocation c reaches sendCommand in this step
Executes(c) ==
    \E i \in DOMAIN auditLog' :
        i > Len(auditLog) /\ auditLog'[i] = Audit("EXECUTE", c)

\* an invocation that found the extension disconnected ended with the
\* not-connected error and is neither in the table nor sent to any connection
DownFailed ==
    \A c \in DOMAIN calls :
        calls[c].down =>
            /\ calls[c].state = "done"
            /\ calls[c].result = resultNotConnected
            /\ c \notin pendingRequests
            /\ ~Forwarded(c)

\* sendCommand fails at once while no extension is connected, and forwards to
\* the connected extension otherwise, whatever happened before
ForwardedIffConnected ==
    \A c \in CallIds :
        Executes(c) =>
            IF extensionClient = Null
            THEN /\ calls'[c].down
                 /\ calls'[c].result = resultNotConnected
                 /\ sent' = sent
                 /\ pendingRequests' = pendingRequests
            ELSE /\ ~calls'[c].down
                 /\ pendingRequests' = pendingRequests \cup {c}
                 /\ Len(sent') = Len(sent) + 1
                 /\ sent'[Len(sent')].id = c
                 /\ sent'[Len(sent')].to = extensionClient

\* C14: while the extension is disconnected each command fails on its own
\* with an error result, neither queued nor forwarded; the Gateway goes on
\* serving, and a command issued once an extension is connected again is
\* forwarded to it.
C14_DownFailsIndividually == []DownFailed /\ [][ForwardedIffConnected]_vars

\* a command failed while the extension was away, and a later one was
\* forwarded to the reconnected extension and answered
C14_Witness ==
    /\ Len(calls) = 2
    /\ calls[1].down
    /\ calls[1].result = resultNotConnected
    /\ Forwarded(2)
    /\ calls[2].result = resultOfKernel
    /\ \E i \in DOMAIN conns : ~conns[i].open /\ conns[i].token = AUTH_TOKEN

\* the audit entries of the given kinds written for invocation c
Entries(c, kinds) ==
    {i \in DOMAIN auditLog : auditLog[i].call = c /\ auditLog[i].kind \in kinds}

\* invocation c ended with a refusal of the policy: of the tier, of the user
\* or of the domain allowlist
RejectedByPolicy(c) ==
    \/ calls[c].result \in FixedRejections
    \/ calls[c].result \in {resultDenied, resultDomainDenied}

\* every EXECUTE entry of c is followed by at most one RESULT or ERROR entry,
\* and by one once the invocation has ended
ExecuteAnswered(c) ==
    /\ Cardinality(Entries(c, {"EXECUTE"})) <= 1
    /\ Cardinality(Entries(c, {"RESULT", "ERROR"})) <= Cardinality(Entries(c, {"EXECUTE"}))
    /\ \A i \in Entries(c, {"EXECUTE"}) :
          /\ \A j \in Entries(c, {"RESULT", "ERROR"}) : i < j
          /\ calls[c].state = "done" => Entries(c, {"RESULT", "ERROR"}) # {}

\* C20: every outcome of an invocation has its audit entry: DENIED for a tier
\* refusal, DENIED by user for a refused confirmation, EXECUTE for a forwarded
\* command, then RESULT for its result and ERROR for its timeout or failure;
\* an invocation rejected by policy has no EXECUTE entry, and an EXECUTE entry
\* is followed by exactly one RESULT or ERROR entry of its invocation.
C20_AuditTrail ==
    \A c \in DOMAIN calls :
        /\ calls[c].result \in FixedRejections => Entries(c, {"DENIED"}) # {}
        /\ calls[c].result = resultDenied => Entries(c, {"DENIED by user"}) # {}
        /\ Forwarded(c) \/ calls[c].down => Entries(c, {"EXECUTE"}) # {}
        /\ calls[c].result \in {resultTimedOut, resultNotConnected}
              => Entries(c, {"ERROR"}) # {}
        /\ calls[c].result \in {resultOfKernel, resultDomainDenied}
              => Entries(c, {"RESULT"}) # {}
        /\ RejectedByPolicy(c) => Entries(c, {"EXECUTE"}) = {}
        /\ ExecuteAnswered(c)

\* C12: every request added to the outstanding-request table is removed from
\* it exactly once, by its response or by its timeout, a request whose timeout
\* fired ends with the timeout error, and no entry stays in the table forever.
C12_PendingRemoved ==
    /\ []PendingTracked
    /\ [][PendingAddedOnce]_vars
    /\ \A c \in CallIds : (c \in pendingRequests) ~> (c \notin pendingRequests)

(***************************************************************************)
(* Properties of the kernel                                                 *)
(***************************************************************************)

\* C4: with a domain allowlist configured, a command that arrives while a tab
\* is attached is executed only if the hostname that tab is showing equals, or
\* is a subdomain of, one of the allowed domains.
C4_DomainAllowlist ==
    (allowedDomains # <<>> /\ last.executed /\ last.preActive # Null)
        => DomainAllowed(Hostname(PageUrl(last.prePage)), allowedDomains)

\* C5: whenever the path lies inside a tab, the node-id chain is the snapshot
\* root id followed by one node id per DOM segment of the path.
C5_ChainParallel ==
    isInsideTab(KState) =>
        /\ Len(axNodeIds) = Len(getDomSegments(path)) + 1
        /\ <<axNodeIds[1]>> = RootChain(nodeMap)

\* the last command was a successful Enter tab of tab 7 by `cd tabs/7` from the
\* root or `cd 7` from the tab listing
EnteredTab7 ==
    /\ last.executed
    /\ last.out = "Entered tab"
    /\ \/ last.cmd = c_cd_tabs_7 /\ last.prePath = <<>>
       \/ last.cmd = c_cd_7 /\ last.prePath = <<s_tabs>>

\* C6: after every successful Enter tab of tab 7 the path is ~/tabs/7, tab 7
\* is the attached tab and the node-id chain is exactly [root of the snapshot].
C6_EnterTab ==
    EnteredTab7 =>
        /\ handlePwd(KState) = <<"~", "/">> \o s_tabs \o <<"/", "7">>
        /\ attachedTabId = 7
        /\ activeTabId = 7
        /\ axNodeIds # <<>>
        /\ axNodeIds = RootChain(nodeMap)

\* the last two commands were `cd nav` from a tab's root, which entered the
\* container, and then `cd ..`
CdNavThenUp ==
    /\ last.executed
    /\ last.cmd = c_cd_up
    /\ last.afterCdNav

\* C7: from a tab's root, `cd <container>` followed by `cd ..` returns to that
\* tab's root: same path, chain [snapshot root], still inside the tab.
C7_CdUpReturnsToTabRoot ==
    CdNavThenUp =>
        /\ path = Pop(last.prePath)
        /\ axNodeIds # <<>>
        /\ axNodeIds = RootChain(nodeMap)
        /\ isInsideTab(KState)

\* the last command (ls or click) found the snapshot stale and re-fetched it
AutoRefreshed ==
    /\ last.executed
    /\ last.cmd \in {c_ls, c_click_submit}
    /\ last.fresh \in {"reset", "refreshed"}
    /\ last.preIds # <<>>

\* the last command was a `refresh` that re-fetched the snapshot
ManualRefreshed ==
    /\ last.executed
    /\ last.cmd = c_refresh
    /\ last.out = "Refreshed"
    /\ last.preIds # <<>>

\* the node that was current before the last command is not in the snapshot
CurrentNodeGone == ~MapHas(nodeMap, Last(last.preIds))

PathResetToRoot ==
    /\ path = SliceToDomStart(last.prePath)
    /\ axNodeIds = RootChain(nodeMap)

PathUnchanged ==
    /\ path = last.prePath
    /\ axNodeIds = last.preIds

C9_DistinctNames ==
    mapDone => \A i, j \in DOMAIN mapOut : i # j => mapOut[i].name # mapOut[j].name

\* C10: at every moment at most one tab has the debugger attached, also while
\* the enter-tab commands of two callers overlap.
C10_OneTabAttached == Cardinality(dbg) <= 1

\* what an entry is to its reader: the node, its name and its kind
Shown(out) ==
    [i \in DOMAIN out |->
        [axNodeId |-> out[i].axNodeId, name |-> out[i].name, role |-> out[i].role,
         isDirectory |-> out[i].isDirectory]]

\* C39: a mapping pass over a finite node set ends, cycles of child references
\* included, having walked the child list of no node twice (so of no more
\* nodes than the set has), and its entries are no more than the child
\* references walked.
C39_EachNodeExpandedOnce ==
    mapDone =>
        With(Expansions(mapParent, mapNodes), LAMBDA ex :
            /\ \A i, j \in DOMAIN ex : ex[i] = ex[j] => i = j
            /\ Len(ex) <= Len(mapNodes)
            /\ Len(mapOut) <= ChildRefs(mapNodes))

\* a pass over a tree whose wrapper names itself and the parent, the parent
\* naming the wrapper twice: the parent and the wrapper were walked once each
C39_Witness ==
    /\ mapDone
    /\ Expansions(mapParent, mapNodes) = <<MapParentId, MapWrapperId>>
    /\ Len(MapGet(mapNodes, MapWrapperId).childIds) = 4
    /\ Cardinality({i \in DOMAIN MapGet(mapNodes, mapParent).childIds :
                       MapGet(mapNodes, mapParent).childIds[i] = MapWrapperId}) = 2

GeneratedName(out, i) == axNodeToVFSNode(MapGet(mapNodes, out[i].axNodeId)).name

\* how many entries up to the i-th have the i-th entry's generated name
NameRank(out, i) ==
    Cardinality({j \in 1..i : GeneratedName(out, j) = GeneratedName(out, i)})

\* C23: within one sibling list the first entry with a generated name keeps it
\* unsuffixed, and the k-th entry with that generated name (k >= 2) is named
\* <name>_k.
C23_KthIsSuffixed ==
    mapDone =>
        \A i \in DOMAIN mapOut :
            mapOut[i].name =
                IF NameRank(mapOut, i) = 1 THEN GeneratedName(mapOut, i)
                ELSE GeneratedName(mapOut, i) \o <<"_">> \o ToStr(NameRank(mapOut, i))

\* three sibling buttons named "a": a_btn, a_btn_2, a_btn_3
C23_Witness ==
    /\ mapDone
    /\ Len(mapOut) = 3
    /\ \A i \in 1..3 : mapOut[i].role = r_button /\ NameRank(mapOut, i) = i
    /\ mapOut[1].name = n_a \o <<"_", "b", "t", "n">>
    /\ mapOut[2].name = mapOut[1].name \o <<"_", "2">>
    /\ mapOut[3].name = mapOut[1].name \o <<"_", "3">>

\* C16: an error raised while the kernel executes a command is caught and
\* returned as the command's text: no executed command ends without a textual
\* result.
C16_ErrorsReturnedAsText == last.executed => last.out # Rejects

\* the node that the DOM segments `segs` name in document p, walking down from
\* its root by child names; <<>> when a segment names no child
RECURSIVE DirNode(_, _, _)
DirNode(nmap, id, segs) ==
    IF segs = <<>> \/ id = <<>> THEN id
    ELSE With(findChildByName(id, Head(segs), nmap), LAMBDA c :
         IF c = NoVFS THEN <<>> ELSE DirNode(nmap, c.axNodeId, Tail(segs)))

\* what `name` is in the directory that `pth` names in the document its tab
\* shows: "leaf", "dir", "none", or "" when pth names no directory of a tab
Resolves(pth, name) ==
    IF getTabIdFromPath(pth) = Null THEN ""
    ELSE With(buildNodeMap(PageNodes(page[getTabIdFromPath(pth)])), LAMBDA nm :
         With(DirNode(nm, IF RootChain(nm) = <<>> THEN <<>> ELSE RootChain(nm)[1],
                      getDomSegments(pth)), LAMBDA dir :
         IF dir = <<>> THEN ""
         ELSE With(findChildByName(dir, name, nm), LAMBDA c :
              IF c = NoVFS THEN "none"
              ELSE IF c.isDirectory THEN "dir" ELSE "leaf")))

CdLeaf ==
    /\ last.cmd = c_cd_submit /\ last.executed
    /\ Resolves(last.prePath, s_submit_btn) = "leaf"

CdMissing ==
    /\ last.cmd = c_cd_zzz /\ last.executed
    /\ Resolves(last.prePath, <<"z","z","z">>) = "none"

\* C17: `cd <name>` fails with the not-a-directory error when the name is a
\* leaf of the current directory and with the no-such-entry error when it is
\* no entry of it; in both cases the path and the node-id chain stay as they
\* were.
C17_CdFailureLeavesPath ==
    /\ CdLeaf => last.out = "cd: NotADirectory"
    /\ CdMissing => last.out = "cd: NoSuchEntry"
    /\ CdLeaf \/ CdMissing => path = last.prePath /\ axNodeIds = last.preIds

\* the path names a tab's root
AtTabRoot(pth) == getTabIdFromPath(pth) # Null /\ Len(pth) = getDomStartIndex(pth)

\* C18: after `cd ..` at a tab's root the session is at the browser listing
\* and no tab is attached.
C18_LeavingTabDetaches ==
    (last.cmd = c_cd_up /\ last.executed /\ AtTabRoot(last.prePath))
    => /\ path = Pop(last.prePath)
       /\ dbg = {} /\ attachedTabId = Null

\* C19: while the path is a browser-level prefix with no tab chosen, the
\* node-id chain is empty.
C19_PrefixHasNoChain == getTabIdFromPath(path) = Null => axNodeIds = <<>>

\* C27: between commands, whenever the path lies inside tab T, the active tab
\* is T, the control-plane client is attached to T and the node map holds a
\* snapshot.
C27_PathTabIsAttached ==
    getTabIdFromPath(path) # Null =>
        /\ activeTabId = getTabIdFromPath(path)
        /\ attachedTabId = getTabIdFromPath(path)
        /\ getTabIdFromPath(path) \in dbg
        /\ nodeMap # <<>>

\* the last command was a cd that returned an error
CdCommands ==
    {c \in KernelCommands : c # <<>> /\ parseCommandLine(trim(c)) # <<>>
                               /\ toLowerCase(parseCommandLine(trim(c))[1]) = w_cd}

CdFailed ==
    /\ last.executed
    /\ last.cmd \in CdCommands
    /\ last.out \notin {"", "Entered tab"}

\* C28: a cd that returns an error leaves the path, the node-id chain and the
\* attached tab exactly as they were, for multi-segment and ~/ arguments too.
C28_FailedCdChangesNothing ==
    CdFailed =>
        /\ path = last.prePath
        /\ axNodeIds = last.preIds
        /\ attachedTabId = last.preAttached

\* the last command was a read operation that was executed
ReadDone == last.executed /\ last.cmd \in ReadCommands

\* C29 as stated: ls, cat, text, grep, find and tree, with or without an
\* argument, leave the path, the node-id chain and the attached tab unchanged.
C29_ReadsAsStated ==
    ReadDone =>
        /\ path = last.prePath
        /\ axNodeIds = last.preIds
        /\ attachedTabId = last.preAttached

\* C29: ls, cat, text, grep, find and tree, with or without an argument, leave
\* the attached tab unchanged, and leave the path and the node-id chain
\* unchanged unless the refresh of a stale snapshot found the current node
\* gone: then the path is the tab's root and the chain the new snapshot's root.
C29_ReadsKeepPlace ==
    ReadDone =>
        /\ attachedTabId = last.preAttached
        /\ activeTabId = last.preActive
        /\ IF last.fresh = "reset"
           THEN /\ last.preStale
                /\ path = SliceToDomStart(last.prePath)
                /\ axNodeIds = RootChain(nodeMap)
           ELSE /\ path = last.prePath
                /\ axNodeIds = last.preIds

\* a cat with an argument, in a container the page has dropped since the
\* snapshot was taken
C29_Witness ==
    /\ ReadDone
    /\ last.cmd = c_cat_submit
    /\ Len(last.prePath) = 3
    /\ last.fresh = "reset"
    /\ Len(path) = 2

\* the last command was a click, a focus or a type that succeeded
ElementActed == last.executed /\ last.out \in {"Clicked", "Focused", "Typed"}

\* C30: after each successful click, focus and type the snapshot is marked
\* stale, so that the next operation fetches it again.
C30_ActionMarksStale == ElementActed => treeStale

\* the DOM segments of the path, resolved one by one from the snapshot's
\* root, give the node-id chain
PathDenotesChain ==
    With(getDomSegments(path), LAMBDA segs :
        /\ Len(axNodeIds) = Len(segs) + 1
        /\ <<axNodeIds[1]>> = RootChain(nodeMap)
        /\ \A i \in DOMAIN segs :
              findChildByName(axNodeIds[i], segs[i], nodeMap) # NoVFS
              /\ findChildByName(axNodeIds[i], segs[i], nodeMap).axNodeId = axNodeIds[i + 1])

\* C37: after a command whose automatic refresh kept the node-id chain, the
\* path denotes that chain in the new snapshot.
C37_PreservedPathDenotesChain ==
    (last.executed /\ last.fresh = "refreshed" /\ isInsideTab(KState))
    => PathDenotesChain

\* C38: a path of the form windows/<winId>/<tabId>/... names a tab of that
\* window.
C38_TabOfItsWindow ==
    (Len(path) >= 3 /\ path[1] = s_windows)
    => /\ parseInt(path[3]) \in TabIds
       /\ WindowOf(parseInt(path[3])) = parseInt(path[2])

NavigateReturned == last.cmd = c_navigate_example /\ last.executed

\* after the navigation the tab that was active is active and attached again,
\* the path is its browser-level prefix and the chain is the snapshot's root
NavigatedToRoot ==
    /\ path = SliceToDomStart(last.prePath)
    /\ nodeMap # <<>>
    /\ axNodeIds = RootChain(nodeMap)
    /\ Len(axNodeIds) = 1
    /\ activeTabId = last.preActive
    /\ attachedTabId = last.preActive
    /\ attachedTabId \in dbg

\* C32: every `navigate <url>` that was run inside a tab and returned leaves
\* the browser-level prefix of the path, the chain [new root] and the same tab
\* attached.
C32_NavigateAsStated ==
    (NavigateReturned /\ last.out \in {"Navigated", "Re-attach failed"})
    => NavigatedToRoot

\* C11: commands are executed strictly in submission order: a command does
\* not start reading or changing the session state while another command,
\* received before it, has not completed.
C11_OneCommandAtATime ==
    \A c1, c2 \in Callers :
        c1 # c2 => tasks[c1].pc = "idle" \/ tasks[c2].pc = "idle"

(***************************************************************************)
(* The extension's bridge client: wsConnect, its socket handlers, the       *)
(* keepalive alarm and the settings listeners of the service worker         *)
(***************************************************************************)

Tokens == {1, 2}

\* automatic attempts counted after a loss
MaxAttempts == 2

\* the service worker's globals as one value
Client ==
    [wsEnabled |-> wsEnabled, wsToken |-> wsToken, ws |-> ws,
     wsReconnectTimer |-> wsReconnectTimer, wsConnected |-> wsConnected,
     keepalive |-> keepalive, closing |-> closing]

Becomes(w) ==
    /\ wsEnabled' = w.wsEnabled
    /\ wsToken' = w.wsToken
    /\ ws' = w.ws
    /\ wsReconnectTimer' = w.wsReconnectTimer
    /\ wsConnected' = w.wsConnected
    /\ keepalive' = w.keepalive
    /\ closing' = w.closing

wsConnect_ignoresEnabled(w) ==
    IF w.wsToken = Null THEN w
    ELSE IF w.ws \in {"open", "connecting"} THEN w
    ELSE [w EXCEPT !.ws = "connecting"]

\* wsConnect: a new socket is made unless the bridge is off or a socket is
\* open or connecting
wsConnect(w) ==
    IF w.wsToken = Null \/ ~w.wsEnabled THEN w
    ELSE IF w.ws \in {"open", "connecting"} THEN w
    ELSE [w EXCEPT !.ws = "connecting"]

\* ws.onopen
onopen(w) == [w EXCEPT !.ws = "open", !.wsConnected = TRUE, !.keepalive = TRUE]

onclose_noTimer(w) ==
    IF ~w.wsEnabled THEN [w EXCEPT !.wsConnected = FALSE, !.keepalive = FALSE]
    ELSE [w EXCEPT !.wsConnected = FALSE]

\* ws.onclose: arms the 5 second reconnect timer if the bridge is still on
onclose(w) ==
    IF w.wsEnabled /\ w.wsToken # Null /\ ~w.wsReconnectTimer
    THEN [w EXCEPT !.wsConnected = FALSE, !.wsReconnectTimer = TRUE]
    ELSE IF ~w.wsEnabled
    THEN [w EXCEPT !.wsConnected = FALSE, !.keepalive = FALSE]
    ELSE [w EXCEPT !.wsConnected = FALSE]

\* `if (ws) { ws.close(); ws = null; }`: a socket that is not closed yet gets
\* its close event later
CloseSocket(w) ==
    [w EXCEPT !.ws = "null",
              !.closing = @ \/ w.ws \in {"open", "connecting"}]

wsDisconnect(w) ==
    [CloseSocket(w) EXCEPT !.wsEnabled = FALSE, !.wsConnected = FALSE,
                           !.wsReconnectTimer = FALSE, !.keepalive = FALSE]

\* the chrome.alarms.onAlarm listener
onAlarm(w) ==
    IF w.wsEnabled /\ w.wsToken # Null /\ w.ws # "open" /\ ~w.wsReconnectTimer
    THEN wsConnect(w)
    ELSE w

\* the worker's start: fresh globals, then the chrome.storage.local.get callback
Restore(st) ==
    wsConnect([wsEnabled |-> st.ws_enabled, wsToken |-> st.ws_token,
               ws |-> "null", wsReconnectTimer |-> FALSE, wsConnected |-> FALSE,
               keepalive |-> st.ws_enabled /\ st.ws_token # Null,
               closing |-> FALSE])

\* the chrome.storage.onChanged listener
onChanged(w, ev) ==
    With([w EXCEPT !.wsEnabled = IF ev.enabledChanged THEN ev.ws_enabled ELSE @,
                   !.wsToken = IF ev.tokenChanged THEN ev.ws_token ELSE @],
         LAMBDA v :
           IF ~v.wsEnabled
           THEN [CloseSocket(v) EXCEPT !.wsConnected = FALSE,
                                       !.wsReconnectTimer = FALSE]
           ELSE IF v.wsToken # Null
           THEN wsConnect([CloseSocket(v) EXCEPT !.wsConnected = FALSE,
                                                 !.wsReconnectTimer = FALSE])
           ELSE v)

\* chrome.storage.local.set: the listeners hear of the keys whose value changed
StorageSet(st) ==
    /\ storage' = st
    /\ changes' =
         IF st = storage THEN changes
         ELSE Append(changes,
                     [enabledChanged |-> st.ws_enabled # storage.ws_enabled,
                      tokenChanged |-> st.ws_token # storage.ws_token,
                      ws_enabled |-> st.ws_enabled, ws_token |-> st.ws_token])

\* the bridge is on, in the settings and in the running worker
BridgeOn(st, w, wk) ==
    /\ st.ws_enabled /\ st.ws_token # Null
    /\ wk = "running" => w.wsEnabled /\ w.wsToken # Null

WsUnchanged == UNCHANGED <<mapVars, kernelVars, attachVars, gwVars, pureVars>>

WsInit ==
    /\ wsEnabled = FALSE
    /\ wsToken = Null
    /\ ws = "null"
    /\ wsReconnectTimer = FALSE
    /\ wsConnected = FALSE
    /\ keepalive = FALSE
    /\ closing = FALSE
    /\ worker = "running"
    /\ storage = [ws_enabled |-> FALSE, ws_token |-> Null]
    /\ changes = <<>>
    /\ retrying = 0

\* an attempt made by a timer or an alarm after a loss is counted
Attempted ==
    retrying' = IF retrying > 0 /\ retrying <= MaxAttempts
                   /\ (worker = "suspended" \/ ws # "connecting")
                   /\ ws' = "connecting"
                THEN retrying + 1
                ELSE retrying

\* the Gateway accepts the socket
WsOpen ==
    /\ worker = "running" /\ ws = "connecting"
    /\ Becomes(onopen(Client))
    /\ retrying' = 0
    /\ UNCHANGED <<worker, storage, changes>>
    /\ WsUnchanged

\* the Gateway is not listening or refuses the token
AttemptFails ==
    /\ worker = "running" /\ ws = "connecting"
    /\ Becomes(onclose([Client EXCEPT !.ws = "closed"]))
    /\ UNCHANGED <<worker, storage, changes, retrying>>
    /\ WsUnchanged

\* the open connection is lost
ConnectionLost ==
    /\ worker = "running" /\ ws = "open"
    /\ Becomes(onclose([Client EXCEPT !.ws = "closed"]))
    /\ retrying' = (IF BridgeOn(storage, Client, worker) THEN 1 ELSE 0)
    /\ UNCHANGED <<worker, storage, changes>>
    /\ WsUnchanged

\* the close event of a socket the code closed and dropped
StaleClose ==
    /\ worker = "running" /\ closing
    /\ Becomes(onclose([Client EXCEPT !.closing = FALSE]))
    /\ UNCHANGED <<worker, storage, changes, retrying>>
    /\ WsUnchanged

\* the reconnect timer's callback
ReconnectTimer ==
    /\ worker = "running" /\ wsReconnectTimer
    /\ Becomes(wsConnect([Client EXCEPT !.wsReconnectTimer = FALSE]))
    /\ Attempted
    /\ UNCHANGED <<worker, storage, changes>>
    /\ WsUnchanged

\* the keepalive alarm fires; it starts a suspended worker first
KeepaliveAlarm ==
    /\ keepalive
    /\ Becomes(onAlarm(IF worker = "running" THEN Client ELSE Restore(storage)))
    /\ worker' = "running"
    /\ Attempted
    /\ UNCHANGED <<storage, changes>>
    /\ WsUnchanged

\* the browser suspends the idle worker: its globals, timers and sockets go
Suspend ==
    /\ worker = "running" /\ changes = <<>>
    /\ worker' = "suspended"
    /\ Becomes([Client EXCEPT !.ws = "null", !.wsReconnectTimer = FALSE,
                              !.wsConnected = FALSE, !.closing = FALSE])
    /\ retrying' = (IF retrying > 0 THEN retrying
                     ELSE IF ws = "open" /\ BridgeOn(storage, Client, worker) THEN 1
                     ELSE 0)
    /\ UNCHANGED <<storage, changes>>
    /\ WsUnchanged

\* the user opens the side panel, which starts a suspended worker
PanelWake ==
    /\ worker = "suspended"
    /\ worker' = "running"
    /\ Becomes(Restore(storage))
    /\ UNCHANGED <<storage, changes, retrying>>
    /\ WsUnchanged

\* handleConnect with a token
HandleConnect ==
    /\ worker = "running" /\ changes = <<>>
    /\ \E token \in Tokens :
         /\ Becomes(wsConnect([Client EXCEPT !.wsToken = token, !.wsEnabled = TRUE]))
         /\ StorageSet([ws_enabled |-> TRUE, ws_token |-> token])
    /\ retrying' = (IF BridgeOn(storage, Client, worker) THEN retrying ELSE 0)
    /\ UNCHANGED worker
    /\ WsUnchanged

\* handleDisconnect
HandleDisconnect ==
    /\ worker = "running" /\ changes = <<>>
    /\ wsEnabled \/ wsConnected
    /\ Becomes(wsDisconnect(Client))
    /\ StorageSet([storage EXCEPT !.ws_enabled = FALSE])
    /\ retrying' = 0
    /\ UNCHANGED worker
    /\ WsUnchanged

\* the options page saves the bridge settings
OptionsSave ==
    /\ changes = <<>>
    /\ \E enabled \in BOOLEAN, token \in Tokens \cup {Null} :
         /\ [ws_enabled |-> enabled, ws_token |-> token] # storage
         /\ StorageSet([ws_enabled |-> enabled, ws_token |-> token])
         /\ retrying' = (IF enabled /\ token # Null THEN retrying ELSE 0)
    /\ UNCHANGED <<wsEnabled, wsToken, ws, wsReconnectTimer, wsConnected,
                   keepalive, closing, worker>>
    /\ WsUnchanged

\* a storage change reaches the onChanged listener; it starts a suspended
\* worker first
StorageChanged ==
    /\ changes # <<>>
    /\ Becomes(onChanged(IF worker = "running" THEN Client ELSE Restore(storage),
                         Head(changes)))
    /\ changes' = Tail(changes)
    /\ worker' = "running"
    /\ UNCHANGED <<storage, retrying>>
    /\ WsUnchanged

WsNext ==
    \/ WsOpen \/ AttemptFails \/ ConnectionLost \/ StaleClose \/ ReconnectTimer
    \/ KeepaliveAlarm \/ Suspend \/ PanelWake \/ HandleConnect
    \/ HandleDisconnect \/ OptionsSave \/ StorageChanged

\* a socket of the enabled bridge closes: the reconnect timer is armed and no
\* attempt is made in the same step
CloseArmsTimer ==
    (/\ worker = "running" /\ ws \in {"open", "connecting"} /\ ws' = "closed"
     /\ wsEnabled /\ wsToken # Null)
    => wsReconnectTimer' /\ worker' = "running"

\* C15: after the connection is lost while the bridge is enabled with a token,
\* reconnect attempts are made automatically, each after a delay, and they are
\* made again and again until a connection is re-established or the bridge is
\* switched off.
C15_ReconnectLoop ==
    /\ [][CloseArmsTimer]_vars
    /\ (retrying > 0) ~> (ws = "connecting" \/ retrying = 0)

\* the connection was lost, the first automatic attempts failed, and the
\* next one is under way
C15_Witness == retrying = MaxAttempts + 1 /\ ws = "connecting"

\* C40: in the running worker the recorded state is "connected" exactly when
\* the socket made last is open.
C40_StateMatchesSocket == worker = "running" => (wsConnected <=> ws = "open")

\* a step in which the extension opens a socket to the MCP server
ConnectionAttempt == ws # "connecting" /\ ws' = "connecting"

MaxSegs == 3

RECURSIVE ResolveLoop(_, _, _, _)
ResolveLoop(currentParentId, segments, nmap, resolved) ==
    IF segments = <<>> THEN resolved
    ELSE With(findChildByName(currentParentId, Head(segments), nmap), LAMBDA r :
         IF r = NoVFS THEN NoVFS
         ELSE ResolveLoop(r.axNodeId, Tail(segments), nmap, r))

RECURSIVE ResolveLoop_fromStart(_, _, _, _)
ResolveLoop_fromStart(startId, segments, nmap, resolved) ==
    IF segments = <<>> THEN resolved
    ELSE With(findChildByName(startId, Head(segments), nmap), LAMBDA r :
         IF r = NoVFS THEN NoVFS
         ELSE ResolveLoop_fromStart(startId, Tail(segments), nmap, r))

resolveByPath_fromStart(startId, nameOrPath, nmap) ==
    With(SplitNonEmpty(nameOrPath, "/", <<>>), LAMBDA segments :
        IF segments = <<>> THEN NoVFS
        ELSE IF Len(segments) = 1 THEN findChildByName(startId, segments[1], nmap)
        ELSE ResolveLoop_fromStart(startId, segments, nmap, NoVFS))

\* resolveByPath: NoVFS is its null
resolveByPath(startId, nameOrPath, nmap) ==
    With(SplitNonEmpty(nameOrPath, "/", <<>>), LAMBDA segments :
        IF segments = <<>> THEN NoVFS
        ELSE IF Len(segments) = 1 THEN findChildByName(startId, segments[1], nmap)
        ELSE ResolveLoop(startId, segments, nmap, NoVFS))

\* a document with repeated names:
\*   root 1 { nav 2 { Home link 4 }, nav 3 { Home link 5, Home link 6 } }
TwinNodes ==
    << AXNode(<<"1">>, r_RootWebArea, <<"T","w">>, << <<"2">>, <<"3">> >>, FALSE, 1),
       AXNode(<<"2">>, r_navigation, s_nav, << <<"4">> >>, FALSE, 2),
       AXNode(<<"3">>, r_navigation, s_nav, << <<"5">>, <<"6">> >>, FALSE, 3),
       AXNode(<<"4">>, r_link, <<"H","o","m","e">>, <<>>, FALSE, 4),
       AXNode(<<"5">>, r_link, <<"H","o","m","e">>, <<>>, FALSE, 5),
       AXNode(<<"6">>, r_link, <<"H","o","m","e">>, <<>>, FALSE, 6) >>

\* a document whose link holds an image, as the accessibility tree of
\* <a><img></a> does:
\*   root 1 { main 2 { Home link 3 { Logo image 4 } } }
LinkedNodes ==
    << AXNode(<<"1">>, r_RootWebArea, <<"L","k">>, << <<"2">> >>, FALSE, 1),
       AXNode(<<"2">>, r_main, <<>>, << <<"3">> >>, FALSE, 2),
       AXNode(<<"3">>, r_link, <<"H","o","m","e">>, << <<"4">> >>, FALSE, 3),
       AXNode(<<"4">>, r_image, <<"L","o","g","o">>, <<>>, FALSE, 4) >>

\* the node maps paths are resolved in
ResolveMaps ==
    {buildNodeMap(PageNodes(p)) : p \in {"pA", "pB"}}
        \cup {buildNodeMap(TwinNodes), buildNodeMap(LinkedNodes)}

\* the names of all entries of a node map, and one that names nothing
EntryNames(nmap) ==
    UNION {{getChildVFSNodes(id, nmap)[i].name :
               i \in DOMAIN getChildVFSNodes(id, nmap)} : id \in MapKeys(nmap)}
      \cup {<<"z","z","z">>}

\* a path as the caller may write it: with a leading, a doubled or a trailing
\* separator
Spellings(segs) ==
    {JoinSlash(segs), <<"/">> \o JoinSlash(segs), JoinSlash(segs) \o <<"/">>,
     segs[1] \o <<"/">> \o JoinSlash(segs)} \ {segs[1] \o <<"/">> \o segs[1]}

ResolveInit ==
    /\ rsNodes \in ResolveMaps
    /\ rsStart \in MapKeys(rsNodes)
    /\ \E segs \in SeqsUpTo(EntryNames(rsNodes), MaxSegs) :
          /\ Len(segs) >= 2
          /\ rsPath \in Spellings(segs)
    /\ rsWhole = NoVFS
    /\ rsWholeDone = FALSE
    /\ rsStep = [axNodeId |-> rsStart]
    /\ rsLeft = SplitNonEmpty(rsPath, "/", <<>>)

ResolveIdle ==
    /\ rsNodes = <<>>
    /\ rsStart = <<>>
    /\ rsPath = <<>>
    /\ rsWhole = NoVFS
    /\ rsWholeDone = FALSE
    /\ rsStep = NoVFS
    /\ rsLeft = <<>>

PureUnchanged == UNCHANGED <<mapVars, kernelVars, attachVars, gwVars, wsVars, rdVars, dsVars, fsVars, exVars>>

\* one call for the whole path
ResolveWhole ==
    /\ ~rsWholeDone /\ rsNodes # <<>>
    /\ rsWhole' = resolveByPath(rsStart, rsPath, rsNodes)
    /\ rsWholeDone' = TRUE
    /\ UNCHANGED <<rsNodes, rsStart, rsPath, rsStep, rsLeft>>
    /\ PureUnchanged

\* one call for the next segment, from the entry the previous call returned
ResolveStep ==
    /\ rsLeft # <<>> /\ rsStep # NoVFS
    /\ rsStep' = resolveByPath(rsStep.axNodeId, Head(rsLeft), rsNodes)
    /\ rsLeft' = Tail(rsLeft)
    /\ UNCHANGED <<rsNodes, rsStart, rsPath, rsWhole, rsWholeDone>>
    /\ PureUnchanged

ResolveNext == ResolveWhole \/ ResolveStep

\* C21: when one call resolves a multi-segment path, resolving its segments one
\* at a time, each from the entry the previous one gave, never fails and ends
\* at the same entry.
C21_StepwiseSameAsWhole ==
    (rsWholeDone /\ rsWhole # NoVFS)
    => /\ rsStep # NoVFS
       /\ rsLeft = <<>> => rsStep = rsWhole

\* C36: a multi-segment path resolves to an entry only through containers:
\* when the call for the whole path returned an entry, every segment that had
\* more path after it resolved to a container entry.
C36_NeverThroughLeaf ==
    (/\ rsWholeDone /\ rsWhole # NoVFS
     /\ rsStep # NoVFS /\ rsLeft # <<>>
     /\ Len(rsLeft) < Len(SplitNonEmpty(rsPath, "/", <<>>)))
    => rsStep.isDirectory

\* a three-segment path through a renamed duplicate resolved both ways
C21_Witness ==
    /\ rsWholeDone /\ rsWhole # NoVFS /\ rsLeft = <<>>
    /\ Len(SplitNonEmpty(rsPath, "/", <<>>)) >= 2
    /\ \E i \in DOMAIN rsPath : rsPath[i] = "2"
    /\ rsStep = rsWhole

(***************************************************************************)
(* Redaction of the result of a sensitive command (mcp-server/index.ts)     *)
(***************************************************************************)

\* the key words of the pattern
\*   /^(.*?(?:cookie|session|token|jwt|auth|sid).*?=\s*)(.{4})(.+?)(.{4})$/gim
RedactKeywords ==
    { <<"c","o","o","k","i","e">>, <<"s","e","s","s","i","o","n">>,
      <<"t","o","k","e","n">>, <<"j","w","t">>, <<"a","u","t","h">>,
      <<"s","i","d">> }

\* the number of characters the groups (.{4})(.+?)(.{4}) need
MinValueLen == 9

\* "." matches every character except a line terminator
IsLT(c) == c \in {"\n", "\r"}

\* where the line that holds position i ends: the position of the next line
\* terminator, or the position after the text's last character
LineEnd(t, i) ==
    IF \E j \in i..Len(t) : IsLT(t[j])
    THEN CHOOSE j \in i..Len(t) : IsLT(t[j]) /\ \A h \in i..(j - 1) : ~IsLT(t[h])
    ELSE Len(t) + 1

\* the length of the key word the text has at position k, 0 when it has none
KeywordAt(t, k) ==
    IF \E kw \in RedactKeywords :
          /\ k + Len(kw) - 1 <= Len(t)
          /\ toLowerCase(SubSeq(t, k, k + Len(kw) - 1)) = kw
    THEN Len(CHOOSE kw \in RedactKeywords :
                /\ k + Len(kw) - 1 <= Len(t)
                /\ toLowerCase(SubSeq(t, k, k + Len(kw) - 1)) = kw)
    ELSE 0

\* \s* after the "=" at q: the numbers of whitespace characters it may take so
\* that a whole value is left on the line it stops in
SpaceTaken(t, q) ==
    {w \in 0..(Len(t) - q) :
        /\ \A j \in (q + 1)..(q + w) : IsSpace(t[j])
        /\ LineEnd(t, q + w + 1) - (q + w + 1) >= MinValueLen}

\* the "=" signs a match may end its first group's text with, for the key
\* word at k of the line that starts at pos
EqualsAfter(t, pos, k) ==
    {q \in (k + KeywordAt(t, k))..(LineEnd(t, pos) - 1) :
        t[q] = "=" /\ SpaceTaken(t, q) # {}}

KeywordsFrom(t, pos) ==
    {k \in pos..(LineEnd(t, pos) - 1) : KeywordAt(t, k) > 0 /\ EqualsAfter(t, pos, k) # {}}

Least(S) == CHOOSE x \in S : \A y \in S : x <= y
Most(S) == CHOOSE x \in S : \A y \in S : x >= y

\* the match of the pattern at a line start: the lazy .*? take the first key
\* word and the first "=" a match is possible with, the greedy \s* the most
\* whitespace; `from` is where the value starts and `to` where its line ends
MatchAt(t, pos) ==
    IF KeywordsFrom(t, pos) = {} THEN [ok |-> FALSE]
    ELSE With(Least(EqualsAfter(t, pos, Least(KeywordsFrom(t, pos)))), LAMBDA q :
         With(q + Most(SpaceTaken(t, q)) + 1, LAMBDA from :
            [ok |-> TRUE, from |-> from, to |-> LineEnd(t, from)]))

\* ^ with the m flag: the start of the text or the position after a line
\* terminator
AtLineStart(t, pos) == pos = 1 \/ IsLT(t[pos - 1])

Mask == <<"*", "*", "*">>

\* String.replace with the g flag: every match, left to right, is replaced by
\* its first group, the value's first four characters, the mask and the
\* value's last four characters
RECURSIVE ReplaceFrom(_, _)
ReplaceFrom(t, pos) ==
    IF pos > Len(t) THEN <<>>
    ELSE IF AtLineStart(t, pos) /\ MatchAt(t, pos).ok
    THEN With(MatchAt(t, pos), LAMBDA m :
            SubSeq(t, pos, m.from + 3) \o Mask \o SubSeq(t, m.to - 4, m.to - 1)
                \o ReplaceFrom(t, m.to))
    ELSE <<t[pos]>> \o ReplaceFrom(t, pos + 1)

\* (the same without the g flag: the first match only)
RECURSIVE ReplaceFirst(_, _)
ReplaceFirst(t, pos) ==
    IF pos > Len(t) THEN <<>>
    ELSE IF AtLineStart(t, pos) /\ MatchAt(t, pos).ok
    THEN With(MatchAt(t, pos), LAMBDA m :
            SubSeq(t, pos, m.from + 3) \o Mask \o SubSeq(t, m.to - 4, Len(t)))
    ELSE <<t[pos]>> \o ReplaceFirst(t, pos + 1)

redactSensitiveOutput_firstMatchOnly(command, output, expose) ==
    IF FirstWord(command) \notin SENSITIVE_COMMANDS THEN output
    ELSE IF ~expose THEN ReplaceFirst(output, 1)
    ELSE output

redactSensitiveOutput(command, output, expose) ==
    IF FirstWord(command) \notin SENSITIVE_COMMANDS THEN output
    ELSE IF ~expose THEN ReplaceFrom(output, 1)
    ELSE output

\* result.length > 80 ? result.slice(0, 80) + "..." : result
SummaryLen == 80

Summary(result) ==
    IF Len(result) > SummaryLen
    THEN SubSeq(result, 1, SummaryLen) \o <<".", ".", ".">>
    ELSE result

\* Texts the extension may answer with.  A line is a key, a separator and a
\* value; a text is one line, two lines, or a long line and a line.
CRLF == <<"\r", "\n">>
k_sid == <<"s","i","d">>
k_Token == <<"X","-","T","o","k","e","n">>
k_Via == <<"V","i","a">>
v_8 == <<"a","b","c","d","e","f","g","h">>
v_9 == v_8 \o <<"i">>
v_12 == v_9 \o <<"j","k","l">>
RedactKeys == {k_sid, k_Token, k_Via}
RedactSeparators == {<<"=">>, <<"=", " ">>, <<":", " ">>, <<"=">> \o CRLF}
RedactValues == {v_8, v_9, v_12}
RedactLines == {k \o s \o v : k \in RedactKeys, s \in RedactSeparators, v \in RedactValues}

PadLen == 66
LongLine == [i \in 1..PadLen |-> "x"]

MaxLines == 2

RECURSIVE TextsOf(_)
TextsOf(n) ==
    IF n = 1 THEN RedactLines
    ELSE TextsOf(n - 1) \cup {t \o CRLF \o l : t \in TextsOf(n - 1), l \in RedactLines}

RedactTexts == TextsOf(MaxLines) \cup {LongLine \o CRLF \o l : l \in RedactLines}

c_whoami == w_whoami
c_WhoAmI == <<" ", "W","h","o","A","m","I", " ">>
RedactCommands == {c_whoami, c_WhoAmI, c_ls}

NotReturned == [kind |-> "none", text |-> <<>>]

e_notConnected ==
    <<"E","x","t","e","n","s","i","o","n"," ","n","o","t"," ","c","o","n","n","e",
      "c","t","e","d","."," ","O","p","e","n"," ","t","h","e"," ","D","O","M","S",
      "h","e","l","l"," ","s","i","d","e"," ","p","a","n","e","l"," ","a","n","d",
      " ","r","u","n",":"," ","c","o","n","n","e","c","t"," ","<","t","o","k","e",
      "n",">">>
e_timedOut ==
    <<"C","o","m","m","a","n","d"," ","t","i","m","e","d"," ","o","u","t"," ","a",
      "f","t","e","r"," ","3","0"," ","s","e","c","o","n","d","s">>
sendErrors == {e_notConnected, e_timedOut}

RedactInit ==
    /\ rdExpose \in BOOLEAN
    /\ rdCommand \in RedactCommands
    /\ rdOutput \in RedactTexts
    /\ rdResult = NotReturned
    /\ rdAudit = <<>>

RedactIdle ==
    /\ rdExpose = FALSE
    /\ rdCommand = <<>>
    /\ rdOutput = <<>>
    /\ rdResult = NotReturned
    /\ rdAudit = <<>>

RedactUnchanged ==
    UNCHANGED <<mapVars, kernelVars, attachVars, gwVars, wsVars, rsVars, dsVars, fsVars, exVars>>

\* executeWithSecurity, the extension's answer arrived: redact, log the
\* summary, return
ResultArrives ==
    /\ rdCommand # <<>> /\ rdResult = NotReturned
    /\ With(redactSensitiveOutput(rdCommand, rdOutput, rdExpose), LAMBDA result :
          /\ rdAudit' = Append(rdAudit, [kind |-> "RESULT", text |-> Summary(result)])
          /\ rdResult' = [kind |-> "text", text |-> result])
    /\ UNCHANGED <<rdExpose, rdCommand, rdOutput>>
    /\ RedactUnchanged

\* executeWithSecurity, sendCommand rejected: log the error, return it
SendRejects ==
    /\ rdCommand # <<>> /\ rdResult = NotReturned
    /\ \E msg \in sendErrors :
          /\ rdAudit' = Append(rdAudit, [kind |-> "ERROR", text |-> msg])
          /\ rdResult' = [kind |-> "error", text |-> <<"E","r","r","o","r",":"," ">> \o msg]
    /\ UNCHANGED <<rdExpose, rdCommand, rdOutput>>
    /\ RedactUnchanged

RedactNext == ResultArrives \/ SendRejects

\* the line of the text that holds position i, counted in line terminators
LineNo(t, i) == Cardinality({j \in 1..(i - 1) : IsLT(t[j])})

\* the characters of line n of the text
RECURSIVE LineChars(_, _, _)
LineChars(t, n, i) ==
    IF i > Len(t) THEN <<>>
    ELSE (IF ~IsLT(t[i]) /\ LineNo(t, i) = n THEN <<t[i]>> ELSE <<>>)
         \o LineChars(t, n, i + 1)

IsSubstring(v, s) ==
    \E i \in 1..(Len(s) - Len(v) + 1) : SubSeq(s, i, i + Len(v) - 1) = v

\* the values of the answer that match the pattern, each with its line
MatchedValues(t) ==
    {[line |-> LineNo(t, MatchAt(t, pos).from),
      value |-> SubSeq(t, MatchAt(t, pos).from, MatchAt(t, pos).to - 1)] :
        pos \in {p \in DOMAIN t : AtLineStart(t, p) /\ MatchAt(t, p).ok}}

\* the text shows the value on the line the answer had it on
Shows(text, mv) == IsSubstring(mv.value, LineChars(text, mv.line, 1))

Answered == rdResult.kind = "text"

\* C24: with the expose flag off, the result of a sensitive command, as
\* returned and as written to the audit log, shows no value of the answer
\* that matches the redaction pattern.
C24_NoUnredactedValue ==
    (rdResult # NotReturned /\ getCommandTier(rdCommand) = "sensitive" /\ ~rdExpose)
    => \A mv \in MatchedValues(rdOutput) :
          /\ ~Shows(rdResult.text, mv)
          /\ \A i \in DOMAIN rdAudit : ~Shows(rdAudit[i].text, mv)

\* a whoami answer of two lines, each with a value of its own, returned masked
C24_Witness ==
    /\ Answered /\ getCommandTier(rdCommand) = "sensitive" /\ ~rdExpose
    /\ Cardinality(MatchedValues(rdOutput)) = 2
    /\ rdResult.text # rdOutput
    /\ Len(rdAudit) = 1 /\ rdAudit[1].text = rdResult.text
    /\ IsSubstring(<<"=">> \o SubSeq(v_12, 1, 4) \o Mask \o SubSeq(v_12, 9, 12), rdResult.text)

(***************************************************************************)
(* The verb of a command: as the gateway classifies it and as the kernel    *)
(* dispatches on it                                                         *)
(***************************************************************************)

NoVerb == <<"<none>">>

\* executeCommand, lines 771-775: the verb of the switch
KernelVerb(raw) ==
    IF trim(raw) = <<>> THEN NoVerb
    ELSE With(parseCommandLine(trim(raw)), LAMBDA parts :
            IF parts = <<>> THEN NoVerb ELSE toLowerCase(parts[1]))

\* the tier of the handler the kernel's switch runs for a verb
VerbTier(cmd) ==
    IF cmd \in NAVIGATE_COMMANDS THEN "navigate"
    ELSE IF cmd \in WRITE_COMMANDS THEN "write"
    ELSE IF cmd \in SENSITIVE_COMMANDS THEN "sensitive"
    ELSE "read"

UpperOf(c) ==
    IF \E i \in DOMAIN LowerChars : LowerChars[i] = c
    THEN UpperChars[CHOOSE i \in DOMAIN LowerChars : LowerChars[i] = c]
    ELSE c

\* the ways a caller may write a verb
VerbSpellings(v) ==
    { v,
      <<UpperOf(v[1])>> \o Tail(v),
      <<"\"">> \o v \o <<"\"">>,
      <<"'">> \o v \o <<"'">>,
      <<v[1], "\"">> \o Tail(v) \o <<"\"">> }

\* the verb of the command the domshell_submit tool builds
w_submit == <<"s","u","b","m","i","t">>

DispatchVerbs ==
    NAVIGATE_COMMANDS \cup WRITE_COMMANDS \cup SENSITIVE_COMMANDS \cup {w_ls, w_submit}
DispatchArgs == {<<>>, <<" ", "x">>}
DispatchCommands ==
    {s \o a : s \in UNION {VerbSpellings(v) : v \in DispatchVerbs}, a \in DispatchArgs}

DispatchInit ==
    /\ dsFlags \in [allowWrite : BOOLEAN, allowSensitive : BOOLEAN, noConfirm : {TRUE}]
    /\ dsCommand \in DispatchCommands
    /\ dsTier = ""
    /\ dsForwarded = FALSE
    /\ dsVerb = Absent

DispatchIdle ==
    /\ dsFlags = [allowWrite |-> FALSE, allowSensitive |-> FALSE, noConfirm |-> TRUE]
    /\ dsCommand = <<>>
    /\ dsTier = ""
    /\ dsForwarded = FALSE
    /\ dsVerb = Absent

DispatchUnchanged ==
    UNCHANGED <<mapVars, kernelVars, attachVars, gwVars, wsVars, rsVars, rdVars, fsVars, exVars>>

\* executeWithSecurity: the tier check, then the command is sent as it came
Classify ==
    /\ dsCommand # <<>> /\ dsTier = ""
    /\ dsTier' = getCommandTier(dsCommand)
    /\ dsForwarded' = isCommandAllowed(dsCommand, dsFlags).allowed
    /\ UNCHANGED <<dsFlags, dsCommand, dsVerb>>
    /\ DispatchUnchanged

\* executeCommand on the string of the EXECUTE message
Dispatch ==
    /\ dsForwarded /\ dsVerb = Absent
    /\ dsVerb' = KernelVerb(dsCommand)
    /\ UNCHANGED <<dsFlags, dsCommand, dsTier, dsForwarded>>
    /\ DispatchUnchanged

DispatchNext == Classify \/ Dispatch

\* C25: the verb the kernel dispatches on has the tier the gateway computed
\* for the forwarded string; no string the gateway classified as read is
\* executed as click, focus, type, navigate, goto, open or whoami.
C25_SameTier ==
    dsVerb # Absent =>
        /\ VerbTier(dsVerb) = dsTier
        /\ dsTier = "read" =>
              dsVerb \notin NAVIGATE_COMMANDS \cup WRITE_COMMANDS \cup SENSITIVE_COMMANDS

\* C26: submit belongs to the write tier: with the write flag off a submit
\* command, the one given to domshell_execute included, is rejected and not
\* forwarded.
C26_SubmitIsWrite ==
    (dsTier # "" /\ FirstWord(dsCommand) = w_submit /\ ~dsFlags.allowWrite)
    => /\ dsTier = "write"
       /\ ~dsForwarded

(***************************************************************************)
(* ensureFreshTree step by step (part_003 949-971), with the debugger's    *)
(* events delivered between its steps (part_003 359-369)                   *)
(***************************************************************************)

\* the documents the attached tab shows one after the other
MaxDocs == 5

FreshIdle ==
    /\ fsDoc = 0
    /\ fsQueued = FALSE
    /\ fsTreeStale = FALSE
    /\ fsNodeMap = 0
    /\ fsPc = "off"
    /\ fsFrom = 0
    /\ fsFetched = FALSE
    /\ fsOwed = FALSE
    /\ fsDuring = FALSE

\* the tab was entered: the snapshot is the one of the document shown
FreshInit ==
    /\ fsDoc = 1
    /\ fsQueued = FALSE
    /\ fsTreeStale = FALSE
    /\ fsNodeMap = 1
    /\ fsPc = "idle"
    /\ fsFrom = 0
    /\ fsFetched = FALSE
    /\ fsOwed = FALSE
    /\ fsDuring = FALSE

FreshUnchanged ==
    UNCHANGED <<mapVars, kernelVars, attachVars, gwVars, wsVars, rsVars, rdVars, dsVars,
                exVars>>

\* the tab navigates, finishes loading or replaces its document: the
\* debugger has an event to deliver
DocumentChanges ==
    /\ fsPc # "off"
    /\ fsDoc < MaxDocs
    /\ fsDoc' = fsDoc + 1
    /\ fsQueued' = TRUE
    /\ UNCHANGED <<fsTreeStale, fsNodeMap, fsPc, fsFrom, fsFetched, fsOwed, fsDuring>>
    /\ FreshUnchanged

\* chrome.debugger.onEvent for the active tab: Page.frameNavigated,
\* Page.loadEventFired or DOM.documentUpdated. The listener runs while no
\* command runs or while one awaits its fetch: from the return of
\* ensureFreshTree to the name's resolution the handler does not yield.
onEvent ==
    /\ fsQueued
    /\ fsPc # "resolving"
    /\ fsQueued' = FALSE
    /\ fsTreeStale' = TRUE
    /\ IF fsPc = "fetching"
         THEN fsDuring' = TRUE /\ UNCHANGED fsOwed
         ELSE fsOwed' = TRUE /\ UNCHANGED fsDuring
    /\ UNCHANGED <<fsDoc, fsNodeMap, fsPc, fsFrom, fsFetched>>
    /\ FreshUnchanged

\* a read or an element command reaches ensureFreshTree: not stale, it
\* returns at once; stale, the flag is cleared and the fetch is awaited
ensureFreshTreeBegins ==
    /\ fsPc = "idle"
    /\ IF ~fsTreeStale
         THEN /\ fsPc' = "resolving"
              /\ fsFetched' = FALSE
              /\ UNCHANGED <<fsTreeStale, fsFrom, fsDuring>>
         ELSE /\ fsTreeStale' = FALSE
              /\ fsPc' = "fetching"
              /\ fsFrom' = fsDoc
              /\ fsFetched' = TRUE
              /\ fsDuring' = FALSE
    /\ UNCHANGED <<fsDoc, fsQueued, fsNodeMap, fsOwed>>
    /\ FreshUnchanged

\* getAllFrameAXTrees resolves with the tree of a document shown while it
\* ran; buildNodeMap replaces the snapshot
FetchResolves ==
    /\ fsPc = "fetching"
    /\ \E d \in fsFrom .. fsDoc : fsNodeMap' = d
    /\ fsPc' = "resolving"
    /\ fsOwed' = fsDuring
    /\ UNCHANGED <<fsDoc, fsQueued, fsTreeStale, fsFrom, fsFetched, fsDuring>>
    /\ FreshUnchanged

\* getAllFrameAXTrees rejects (CDPClient.send, chrome.runtime.lastError):
\* executeCommand's catch returns the error, the snapshot is the old one
FetchRejects ==
    /\ fsPc = "fetching"
    /\ fsPc' = "idle"
    /\ fsOwed' = TRUE
    /\ UNCHANGED <<fsDoc, fsQueued, fsTreeStale, fsNodeMap, fsFrom, fsFetched, fsDuring>>
    /\ FreshUnchanged

\* the command resolves its names against the snapshot and returns
ResolvesNames ==
    /\ fsPc = "resolving"
    /\ fsPc' = "idle"
    /\ UNCHANGED <<fsDoc, fsQueued, fsTreeStale, fsNodeMap, fsFrom, fsFetched, fsOwed, fsDuring>>
    /\ FreshUnchanged

FreshNext ==
    \/ DocumentChanges
    \/ onEvent
    \/ ensureFreshTreeBegins
    \/ FetchResolves
    \/ FetchRejects
    \/ ResolvesNames

\* C31: an event delivered for the attached tab is remembered until a fetch
\* begun after it has replaced the snapshot: outside a running fetch the
\* stale flag is set as long as such an event is owed a re-fetch, and a
\* command that resolves names while one is owed has itself re-fetched (the
\* event came during its fetch and the flag is set for the next command).
C31_EventForcesRefetch ==
    /\ (fsOwed /\ fsPc # "fetching") => fsTreeStale
    /\ (fsOwed /\ fsPc = "resolving") => fsFetched

(***************************************************************************)
(* One control-plane connection end to end: sendCommand writes EXECUTE      *)
(* messages (mcp-server/index.ts 212-236), the extension's ws.onmessage     *)
(* handles them one by one and writes the RESULT messages (part_003         *)
(* 186-225)                                                                 *)
(***************************************************************************)

\* the EXECUTE messages of one connection
MaxExec == 3

c_blank == <<" ">>

\* the command strings of domshell_execute calls, the empty string included
ForwardedCommands == {<<>>, c_blank, c_quotes, c_ls, c_pwd, c_cd_tabs_7, c_cd_zzz}

DefaultFlags == [allowWrite |-> FALSE, allowSensitive |-> FALSE, noConfirm |-> FALSE]

ExIdle ==
    /\ exOpen = FALSE
    /\ exSent = <<>>
    /\ exHandled = {}
    /\ exResults = <<>>

ExInit ==
    /\ exOpen = TRUE
    /\ exSent = <<>>
    /\ exHandled = {}
    /\ exResults = <<>>

ExUnchanged ==
    UNCHANGED <<mapVars, attachVars, gwVars, wsVars, rsVars, rdVars, dsVars, fsVars>>

\* executeWithSecurity passes the tier check and sendCommand writes the
\* EXECUTE message with a fresh id
SendExecute ==
    /\ exOpen
    /\ Len(exSent) < MaxExec
    /\ \E command \in ForwardedCommands :
          /\ isCommandAllowed(command, DefaultFlags).allowed
          /\ exSent' = Append(exSent, [id |-> Len(exSent) + 1, command |-> command])
    /\ UNCHANGED <<exOpen, exHandled, exResults>>
    /\ UNCHANGED kernelVars
    /\ ExUnchanged

\* ws.onmessage for the oldest EXECUTE not handled yet: a message whose
\* command is falsy is skipped, a rejected executeCommand is swallowed by the
\* handler's catch, and every other way out sends one RESULT with msg.id
onmessage ==
    /\ exOpen
    /\ \E i \in DOMAIN exSent :
          /\ exSent[i].id \notin exHandled
          /\ \A j \in 1..(i - 1) : exSent[j].id \in exHandled
          /\ exHandled' = exHandled \cup {exSent[i].id}
          /\ IF exSent[i].command = <<>>
             THEN UNCHANGED <<path, axNodeIds, activeTabId, nodeMap, treeStale,
                              attachedTabId, dbg, last, exResults>>
             ELSE /\ WsExecute(exSent[i].command, Null)
                  /\ exResults' = IF last'.out = Rejects THEN exResults
                                  ELSE Append(exResults, [id |-> exSent[i].id])
    /\ UNCHANGED <<exOpen, exSent>>
    /\ UNCHANGED <<page, attachable, allowedDomains>>
    /\ ExUnchanged

\* the connection closes
ExClose ==
    /\ exOpen
    /\ exOpen' = FALSE
    /\ UNCHANGED <<exSent, exHandled, exResults>>
    /\ UNCHANGED kernelVars
    /\ ExUnchanged

ExNext == SendExecute \/ onmessage \/ ExClose

ResultsFor(id) == {j \in DOMAIN exResults : exResults[j].id = id}

\* C33: no EXECUTE is answered twice, and once the extension has handled an
\* EXECUTE on the open connection exactly one RESULT with its id has been
\* sent, whatever the command string was.
C33_OneResultPerExecute ==
    /\ \A i \in DOMAIN exSent : Cardinality(ResultsFor(exSent[i].id)) <= 1
    /\ exOpen => \A id \in exHandled : Cardinality(ResultsFor(id)) = 1

(***************************************************************************)
(* Specifications                                                           *)
(***************************************************************************)

PureIdle == ResolveIdle /\ RedactIdle /\ DispatchIdle /\ FreshIdle /\ ExIdle

MapIdle ==
    /\ mapNodes = <<>>
    /\ mapParent = <<>>
    /\ mapOut = <<>>
    /\ mapDone = FALSE
    /\ mapAgain = <<>>

KernelIdle ==
    /\ KernelInit
    /\ allowedDomains = <<>>

AttachIdle == tasks = [c \in Callers |-> IdleTask]

GatewayIdle ==
    /\ GatewayInit
    /\ flags = [allowWrite |-> FALSE, allowSensitive |-> FALSE, noConfirm |-> FALSE]

\* the Snapshot Mapper applied to drawn node sets
InitMapper == MapInit /\ KernelIdle /\ AttachIdle /\ GatewayIdle /\ WsInit /\ PureIdle

SpecMapper == InitMapper /\ [][MapNext]_vars

\* the kernel handling one command at a time
InitKernel == KernelInit /\ MapIdle /\ AttachIdle /\ GatewayIdle /\ WsInit /\ PureIdle

SpecKernel == InitKernel /\ [][KernelNext]_vars

\* the kernel with two callers' enter-tab commands overlapping
InitAttach == KernelIdle /\ MapIdle /\ AttachIdle /\ GatewayIdle /\ WsInit /\ PureIdle

SpecAttach == InitAttach /\ [][AttachNext]_vars

\* the Gateway serving HTTP callers and the bridge
InitGateway == GatewayInit /\ MapIdle /\ KernelIdle /\ AttachIdle /\ WsInit /\ PureIdle

SpecGateway == InitGateway /\ [][GatewayNext]_vars

\* the Gateway started with --allow-write, with or without --domains, serving
\* overlapping invocations
InitBridge ==
    /\ GatewayInit
    /\ flags = [allowWrite |-> TRUE, allowSensitive |-> FALSE, noConfirm |-> FALSE]
    /\ MapIdle /\ KernelInit /\ AttachIdle /\ WsInit /\ PureIdle

SpecBridge == InitBridge /\ [][BridgeNext]_vars

\* the same, with every armed timer firing once the event loop is free to run it
SpecBridgeLive == SpecBridge /\ \A c \in CallIds : WF_vars(TimerFires(c))

\* the extension's bridge client with its user, its browser and its Gateway
InitReconnect ==
    WsInit /\ MapIdle /\ KernelIdle /\ AttachIdle /\ GatewayIdle /\ PureIdle

SpecReconnect == InitReconnect /\ [][WsNext]_vars

\* the same, with timers, alarms and events delivered and every attempt
\* answered; the worker's suspension and the user's actions may never happen
SpecReconnectLive ==
    /\ SpecReconnect
    /\ WF_vars(ReconnectTimer)
    /\ WF_vars(KeepaliveAlarm)
    /\ WF_vars(StaleClose)
    /\ WF_vars(StorageChanged)
    /\ WF_vars(WsOpen \/ AttemptFails)

\* resolveByPath applied to drawn node maps, start nodes and paths
InitResolve ==
    ResolveInit /\ RedactIdle /\ DispatchIdle /\ FreshIdle /\ ExIdle /\ MapIdle /\ KernelIdle /\ AttachIdle /\ GatewayIdle /\ WsInit

SpecResolve == InitResolve /\ [][ResolveNext]_vars

InitFlatten == FlattenInit /\ KernelIdle /\ AttachIdle /\ GatewayIdle /\ WsInit /\ PureIdle

SpecFlatten == InitFlatten /\ [][FlattenNext]_vars

\* the mapper applied to trees whose child references form cycles
InitCycle == CycleInit /\ KernelIdle /\ AttachIdle /\ GatewayIdle /\ WsInit /\ PureIdle

SpecCycle == InitCycle /\ [][MapNext]_vars

\* the gateway receiving the answer to one forwarded command
InitRedact ==
    RedactInit /\ ResolveIdle /\ DispatchIdle /\ FreshIdle /\ ExIdle /\ MapIdle /\ KernelIdle /\ AttachIdle /\ GatewayIdle /\ WsInit

SpecRedact == InitRedact /\ [][RedactNext]_vars

\* one command string through the gateway's check and the kernel's parser
InitDispatch ==
    DispatchInit /\ ResolveIdle /\ RedactIdle /\ FreshIdle /\ ExIdle /\ MapIdle /\ KernelIdle /\ AttachIdle
        /\ GatewayIdle /\ WsInit

SpecDispatch == InitDispatch /\ [][DispatchNext]_vars

\* the kernel serving a caller that reads the page and acts on its elements
SpecPage == InitKernel /\ [][PageNext]_vars

\* the kernel serving a caller that reads a page whose labels change
SpecMutate == InitKernel /\ [][MutateNext]_vars

\* the kernel serving a caller that navigates the tab it is in
SpecNavigate == InitKernel /\ [][NavigateNext]_vars

\* one entered tab: its documents, the debugger's events and the commands
\* that refresh the snapshot before resolving names
InitFresh ==
    FreshInit /\ ResolveIdle /\ RedactIdle /\ DispatchIdle /\ ExIdle /\ MapIdle /\ KernelIdle
        /\ AttachIdle /\ GatewayIdle /\ WsInit

SpecFresh == InitFresh /\ [][FreshNext]_vars

\* one connection between the Gateway and the extension's kernel
InitAnswer ==
    ExInit /\ KernelInit /\ ResolveIdle /\ RedactIdle /\ DispatchIdle /\ FreshIdle
        /\ MapIdle /\ AttachIdle /\ GatewayIdle /\ WsInit

SpecAnswer == InitAnswer /\ [][ExNext]_vars

====
